---- MODULE Spec2Model ----
(***************************************************************************)
(* A model of reCBZ2: ComicArchive (models/comic_archive.py), Page         *)
(* (models/page.py) and the worker pool of util.py.                        *)
(*                                                                         *)
(* Spec      the operations of one ComicArchive, each a whole call.        *)
(* SpecPool  one convert_pages batch through map_workers, step by step,    *)
(*           with the workers' completion order and SIGINT delivery free.  *)
(* SpecBench extract(count=k) and compute_fmt_sizes on one container.      *)
(***************************************************************************)
EXTENDS Integers, Sequences, FiniteSets, TLC

(* ------------------------------ bounds -------------------------------- *)
\* entries of the source container
MaxEntries == 2
\* pages of the second archive handed to add_chapter
MaxSecond == 1
\* config.pcount() values tried: 1 and MaxProc
MaxProc == 2
\* calls made on the archive in one run
MaxCalls == 2
\* SIGINTs delivered during one batch
MaxSignals == 2
\* entries of the container compute_fmt_sizes samples from
MaxSampleEntries == 4
\* config.samples_count values tried: 0..MaxSamples
MaxSamples == 2
\* widths and heights tried for images and viewports: 1..MaxDim
MaxDim == 4
\* files listed in the cache directory when human_sort is tried
MaxListed == 3
\* chapters given to write_zip: up to MaxVaried of 0..MaxChapterPages pages
\* each, up to MaxChapters of one page each
MaxVaried == 3
MaxChapterPages == 3
MaxChapters == 10
\* os.cpu_count() values tried: None and 1..MaxCores
MaxCores == 4
\* inputs given to map_workers when the worker count is tried
MaxInputs == 3

(* --------------------------- python lists ----------------------------- *)
Min(a, b) == IF a < b THEN a ELSE b
Max(a, b) == IF a > b THEN a ELSE b

\* s[:n] and s[n:] for n >= 0 (a slice never raises)
Take(s, n) == SubSeq(s, 1, Min(n, Len(s)))
Drop(s, n) == SubSeq(s, Min(n, Len(s)) + 1, Len(s))

\* list.insert(i, x): a negative i counts from the end, then i is clamped
PyInsert(s, i, x) ==
    LET j == IF i < 0 THEN Max(i + Len(s), 0) ELSE Min(i, Len(s))
    IN  Take(s, j) \o <<x>> \o Drop(s, j)

\* list.pop(i) raises IndexError unless -len <= i < len
PyPopOk(s, i) == -Len(s) <= i /\ i < Len(s)
PyPop(s, i) ==
    LET j == IF i < 0 THEN i + Len(s) ELSE i
    IN  Take(s, j) \o Drop(s, j + 1)

\* a slice bound: a negative one counts from the end, then it is clamped
PyBound(s, a) == IF a < 0 THEN Max(a + Len(s), 0) ELSE Min(a, Len(s))
PySliceDense(s, a, b, step) ==
    [j \in 1..Max(PyBound(s, b) - PyBound(s, a), 0) |-> s[PyBound(s, a) + j]]
\* s[a:b:step] for step >= 1
PySlice(s, a, b, step) ==
    LET lo == PyBound(s, a)
        hi == PyBound(s, b)
        cnt == IF hi <= lo THEN 0 ELSE (hi - lo + step - 1) \div step
    IN  [j \in 1..cnt |-> s[lo + (j - 1) * step + 1]]

RECURSIVE SumSeq(_)
SumSeq(s) == IF s = <<>> THEN 0 ELSE Head(s) + SumSeq(Tail(s))

RECURSIVE Flatten(_)
Flatten(ss) == IF ss = <<>> THEN <<>> ELSE Head(ss) \o Flatten(Tail(ss))

(* ------------------------- paths, files, pages ------------------------ *)
\* Format variants by name; the extension written for a format is its name.
Formats == {"jpeg", "png", "webp"}
\* the format every entry of the source container is stored in
SourceFmt == "png"
\* "A": this archive's cache directory, "A/<fmt>": its per-format
\* subdirectories (compute_single_fmt), "B": the second archive's cache.
Dirs == {"A", "A/jpeg", "A/png", "A/webp", "B"}
OwnDirs == {"A", "A/jpeg", "A/png", "A/webp"}
\* Path.joinpath(cachedir, fmt.name)
CacheDir(fmt) == "A"
FmtDir(fmt) == CASE fmt = "jpeg" -> "A/jpeg" [] fmt = "png" -> "A/png" [] OTHER -> "A/webp"

MkPath(d, s, e) == [dir |-> d, stem |-> s, ext |-> e]

\* What a file holds: nothing, a source entry of the container (a valid
\* image, one that cannot be decoded, one whose format is not recognised),
\* the output of a conversion, or an output that is still being written.
Kinds == {"src_ok", "src_unreadable", "src_unsupported"}
Contents == Kinds \cup {"absent", "out", "partial"}

\* A file system is a function from the paths of the files that exist to
\* what they hold.
FileAt(fs, p) == IF p \in DOMAIN fs THEN fs[p] ELSE "absent"
\* the files after each path of W is written with content(p)
Written(fs, W, content(_)) ==
    [p \in DOMAIN fs \cup W |-> IF p \in W THEN content(p) ELSE fs[p]]
Removed(fs, W) == [p \in DOMAIN fs \ W |-> fs[p]]

\* Page(file_name): fp, and name/stem/rel_path derived from it
Page(fp) == [fp |-> fp, isPage |-> TRUE]
\* what add_page puts in the index: the path itself, not a Page
RawPath(fp) == [fp |-> fp, isPage |-> FALSE]

\* the order human_sort gives the paths of this model: the directory text,
\* then the number in the name, then the extension text
DirRank(d) ==
    CASE d = "A" -> 1 [] d = "A/jpeg" -> 2 [] d = "A/png" -> 3 [] d = "A/webp" -> 4 [] OTHER -> 5
ExtRank(e) == CASE e = "jpeg" -> 1 [] e = "png" -> 2 [] e = "tmp" -> 3 [] OTHER -> 4
PathLess(p, q) ==
    \/ DirRank(p.dir) < DirRank(q.dir)
    \/ /\ p.dir = q.dir
       /\ \/ p.stem < q.stem
          \/ p.stem = q.stem /\ ExtRank(p.ext) < ExtRank(q.ext)

RECURSIVE SortPaths(_)
SortPaths(S) ==
    IF S = {} THEN <<>>
    ELSE LET m == CHOOSE p \in S : \A q \in S \ {p} : PathLess(p, q)
         IN  <<m>> \o SortPaths(S \ {m})

(* ------------------------------ state --------------------------------- *)
VARIABLES
    \* the source container: its entries in namelist() order (each named by
    \* the number in its file name) and what each entry holds
    namelist, zipKind,
    \* config: pcount(), ignore_page_err, img_format ("keep": no format set)
    cfg,
    \* the file system under the cache directories
    cache,
    \* ComicArchive._index, ._chapter_lengths, ._bad_files
    index, chapter_lengths, bad_files,
    \* the last call made on the archive: its name and the exception it
    \* ended with ("none": it returned)
    last,
    \* the number of calls made so far
    calls

archVars == <<namelist, zipKind, cfg, cache, index, chapter_lengths, bad_files, last, calls>>

VARIABLES
    \* where convert_pages is: "idle", "pool_wait" (in Pool.map), "except"
    \* (in the handler of KeyboardInterrupt, before terminate), "unwind"
    \* (MPrunnerInterrupt raised, leaving the with block), "sync_run" (the
    \* first comprehension advancing map()), "comp1", "comp2", "done"
    pc,
    \* map_workers' multithread argument
    multithread,
    \* the inputs given to map_workers and the target format of the batch
    tasks, batch_fmt,
    \* the pool's workers: what each is doing, on which task, the path it
    \* is saving to, and its process-global ctrl_c_entered
    workers,
    \* the next input to hand out, and the result object being filled
    next_task, results,
    \* SIGINTs delivered so far, and whether one went to the coordinating
    \* process / to a worker process
    signals, hit_main, hit_worker,
    \* calls of Pool.terminate (line 127 and the exit of the with block)
    terminate_calls,
    \* the inputs in the order their tasks ended
    done_order

poolVars == <<pc, multithread, tasks, batch_fmt, workers, next_task, results,
              signals, hit_main, hit_worker, terminate_calls, done_order>>

VARIABLES
    \* config.samples_count and config.allowed_page_formats(), the latter in
    \* its declaration order
    samples_count, declared,
    \* st_size of a source page, and of a page converted to declared[j]
    src_size, sizes,
    \* where compute_fmt_sizes is: "idle", "extracted" (line 300 returned),
    \* "formats" (the formats are being computed), "done"
    bpc,
    \* extract's compressed_files after the slice, and its return value
    sample, source_pages,
    \* compute_fmt_sizes' source_fsize, fmt_fsizes and return value
    source_fsize, fmt_fsizes, report

benchVars == <<samples_count, declared, src_size, sizes, bpc, sample, source_pages,
               source_fsize, fmt_fsizes, report>>

VARIABLES
    \* whether ZipFile(self.fp) opens the source (False: BadZipFile)
    is_zip,
    \* one call of a function of the program: its name and arguments, and
    \* what it returned (NotReturned until it has)
    call, ret

unitVars == <<is_zip, call, ret>>

VARIABLES
    \* the file at the path write_archive writes to: none, a file that
    \* was there before, or the container that was written
    book,
    \* LossyFmt.quality, the class attribute, in the coordinating process
    lossy_quality,
    \* one Page object: its attributes
    pg

objVars == <<book, lossy_quality, pg>>

\* options["quality"] of a batch, and the values LossyFmt.quality may
\* have been left with before it
img_quality == 80
Qualities == {img_quality, 95}
\* no Page object is being followed
NoPg == [fp |-> "none"]
\* no file at the destination of write_archive, and a file from before
NoBook == [kind |-> "absent", closed |-> TRUE, entries |-> <<>>]
OldBook == [kind |-> "old", closed |-> TRUE, entries |-> <<>>]
ObjIdle ==
    /\ book = NoBook
    /\ lossy_quality = img_quality
    /\ pg = NoPg

zipN == Len(namelist)

NotReturned == [exc |-> "running"]
NoCall == [op |-> "init", exc |-> "none"]
Call(op, exc) == [op |-> op, exc |-> exc]
Counted == calls < MaxCalls /\ calls' = calls + 1

(* ------------------------- convert_page_worker ------------------------ *)
\* the format Page.fmt detects in a file that opens as an image
FmtOfFile(p, c) == IF c = "out" THEN p.ext ELSE SourceFmt

\* How the worker ends on one source: "ok" (saved), "skip" (the failure
\* result), or the exception it raises.
WorkerEndStrict(src, fs, ignore) ==
    IF ~src.isPage THEN "AttributeError"
    ELSE CASE FileAt(fs, src.fp) \in {"src_ok", "out"} -> "ok"
           [] FileAt(fs, src.fp) = "src_unsupported" -> "KeyError"
           [] OTHER -> "IOError"
WorkerEndTolerant(src, fs, ignore) ==
    IF ~src.isPage THEN "AttributeError"
    ELSE IF FileAt(fs, src.fp) \in {"src_ok", "out"} THEN "ok" ELSE "skip"
WorkerEnd(src, fs, ignore) ==
    IF ~src.isPage THEN "AttributeError"
    ELSE CASE FileAt(fs, src.fp) \in {"src_ok", "out"} -> "ok"
           [] FileAt(fs, src.fp) = "src_unsupported" -> IF ignore THEN "skip" ELSE "KeyError"
           [] OTHER -> IF ignore THEN "skip" ELSE "IOError"

\* the path the worker saves to: savedir or the source's own directory,
\* the source's stem, the target format's extension
NewFp(src, fmt, savedir, fs) ==
    MkPath(IF savedir = "none" THEN src.fp.dir ELSE savedir,
           src.fp.stem,
           IF fmt = "keep" THEN FmtOfFile(src.fp, FileAt(fs, src.fp)) ELSE fmt)

\* the TaskResult of a worker that does not raise
TaskResult(src, fmt, savedir, fs) ==
    IF WorkerEnd(src, fs, TRUE) = "ok"
    THEN [ok |-> TRUE, page |-> Page(NewFp(src, fmt, savedir, fs))]
    ELSE [ok |-> FALSE, page |-> Page(src.fp)]

\* Format.save(img, dest) writes a temporary file beside dest and renames
\* it over dest when it is complete (the write-then-rename discipline of
\* the file layer).  SaveBegin is the state while the image is being
\* written, SaveEnd the state after the rename.
OutFile(p) == "out"
PartialFile(p) == "partial"
TmpOf(dest) == [dest EXCEPT !.ext = "tmp"]
SaveBeginInPlace(fs, dest) == Written(fs, {dest}, PartialFile)
SaveBegin(fs, dest) == Written(fs, {TmpOf(dest)}, PartialFile)
SaveEnd(fs, dest) == Written(Removed(fs, {TmpOf(dest)}), {dest}, OutFile)

\* the files after the worker has run on src: page.save(new_fp) if it got
\* that far
Saved(fs, src, fmt, savedir) ==
    IF WorkerEnd(src, fs, TRUE) = "ok"
    THEN SaveEnd(SaveBegin(fs, NewFp(src, fmt, savedir, fs)),
                 NewFp(src, fmt, savedir, fs))
    ELSE fs

(* ----------------------------- map_workers ---------------------------- *)
\* What map_workers hands back: map(func, inputs) when pcount == 1, an
\* iterator that runs func as it is advanced and is spent after one pass;
\* the list of Pool.map / ThreadPool.map otherwise.
PCountConfigured(inputs) == cfg.pcount
PCount(inputs) == Min(Len(inputs), cfg.pcount)
MapKind(inputs) == IF PCount(inputs) = 1 THEN "iterator" ELSE "list"
MapResult(kind, items) == [kind |-> kind, items |-> items, pos |-> 1]
\* one pass over the result (a list comprehension), and the result after it
Iterate(r) == IF r.kind = "list" THEN r.items ELSE SubSeq(r.items, r.pos, Len(r.items))
AfterIterate(r) == IF r.kind = "list" THEN r ELSE [r EXCEPT !.pos = Len(r.items) + 1]

\* the two comprehensions of convert_pages over the same results object
IsFailed(item) == item.ok = FALSE
IsDone(item) == item.ok
PagesOf(items) == [i \in 1..Len(items) |-> items[i].page]
FpsOf(items) == [i \in 1..Len(items) |-> items[i].page.fp]
BadFilesOf(r) == FpsOf(SelectSeq(Iterate(r), IsFailed))
IndexOf(r) == PagesOf(SelectSeq(Iterate(AfterIterate(r)), IsDone))

(* ------------------------------- extract ------------------------------ *)
\* ZipFile.extract of the entries named in sel into the cache directory
EntryKind(p) == zipKind[p.stem]
ExtractedCache(fs, sel) ==
    Written(fs, {MkPath("A", e, SourceFmt) : e \in sel}, EntryKind)

\* rglob("*") of the cache directory, human-sorted, one Page per file
CachedPaths(fs) == {p \in DOMAIN fs : p.dir \in OwnDirs}
SortedPages(fs) ==
    LET sp == SortPaths(CachedPaths(fs)) IN [i \in 1..Len(sp) |-> Page(sp[i])]

AllEntries == {namelist[i] : i \in 1..zipN}

\* fetch_pages: the index, extracted on demand while it is empty
FetchRaisesBadZip == index = <<>> /\ ~is_zip
FetchRaises == index = <<>> /\ (~is_zip \/ zipN = 0)
\* BadZipFile is turned into ValueError; the assertion on the entries
FetchError == IF ~is_zip THEN "ValueError" ELSE "AssertionError"
FetchedCache == IF index = <<>> THEN ExtractedCache(cache, AllEntries) ELSE cache
FetchedIndex == IF index = <<>> THEN SortedPages(FetchedCache) ELSE index

\* fetch_chapters: the index cut at the chapter lengths, in order
RECURSIVE CutChapters(_, _)
CutChapters(copy, lens) ==
    IF lens = <<>> THEN <<>>
    ELSE <<Take(copy, Head(lens))>> \o CutChapters(Drop(copy, Head(lens)), Tail(lens))
FetchedLengths(idx) == IF chapter_lengths = <<>> THEN <<Len(idx)>> ELSE chapter_lengths

(* --------------------- a batch of conversion inputs -------------------- *)
\* The workers of a batch run in some order; each opens its source when it
\* runs and, unless it fails, saves before the next one opens.  acc.fs is
\* the file system so far, acc.ends / acc.items what each task ended with.
NoRun(fs) == [fs |-> fs, ends |-> <<>>, items |-> <<>>, ran |-> <<>>]
RunOne(acc, src, i, fmt, savedir, ignore) ==
    [fs    |-> Saved(acc.fs, src, fmt, savedir),
     ends  |-> Append(acc.ends, WorkerEnd(src, acc.fs, ignore)),
     items |-> Append(acc.items, TaskResult(src, fmt, savedir, acc.fs)),
     ran   |-> Append(acc.ran, i)]

RECURSIVE RunTasks(_, _, _, _, _, _)
RunTasks(order, inputs, fmt, savedir, ignore, acc) ==
    IF order = <<>> THEN acc
    ELSE RunTasks(Tail(order), inputs, fmt, savedir, ignore,
                  RunOne(acc, inputs[Head(order)], Head(order), fmt, savedir, ignore))

Raised(e) == e \notin {"ok", "skip"}
\* position (in running order) of the first task that raised, 0 if none
FirstRaise(run) ==
    IF \E k \in 1..Len(run.ends) : Raised(run.ends[k])
    THEN CHOOSE k \in 1..Len(run.ends) :
            Raised(run.ends[k]) /\ \A j \in 1..(k - 1) : ~Raised(run.ends[j])
    ELSE 0
\* the results in input order: slot i holds what the task of input i returned
InInputOrder(run) ==
    [i \in 1..Len(run.ran) |->
        run.items[CHOOSE k \in 1..Len(run.ran) : run.ran[k] = i]]

Identity(n) == [i \in 1..n |-> i]
\* the ascending sequence of a set of positions
RECURSIVE Ascending(_)
Ascending(S) ==
    IF S = {} THEN <<>>
    ELSE LET m == CHOOSE x \in S : \A y \in S : x <= y
         IN  <<m>> \o Ascending(S \ {m})

(* ----------------------- ComicArchive operations ---------------------- *)
\* the second archive handed to add_chapter: MaxSecond valid pages
SecondPages == [i \in 1..MaxSecond |-> Page(MkPath("B", i, SourceFmt))]
SecondKind(p) == "src_ok"
SecondFetched(fs) ==
    LET own == {MkPath("B", i, SourceFmt) : i \in 1..MaxSecond}
    IN  IF \E p \in own : p \in DOMAIN fs THEN fs ELSE Written(fs, own, SecondKind)

\* an optional int argument: <<>> is None, <<n>> is n
Truthy(a) == a # <<>> /\ a[1] # 0
FmtArgs == {"none", "jpeg"}

FetchPages ==
    /\ Counted
    /\ IF FetchRaises
       THEN /\ last' = Call("fetch_pages", FetchError)
            /\ UNCHANGED <<cache, index>>
       ELSE /\ index' = FetchedIndex
            /\ cache' = FetchedCache
            /\ last' = Call("fetch_pages", "none")
    /\ UNCHANGED <<namelist, zipKind, cfg, chapter_lengths, bad_files, poolVars, benchVars, unitVars, objVars>>

FetchChapters ==
    /\ Counted
    /\ IF FetchRaises
       THEN /\ last' = Call("fetch_chapters", FetchError)
            /\ UNCHANGED <<cache, index, chapter_lengths>>
       ELSE /\ index' = FetchedIndex
            /\ cache' = FetchedCache
            /\ chapter_lengths' = FetchedLengths(FetchedIndex)
            /\ last' = Call("fetch_chapters", "none")
    /\ UNCHANGED <<namelist, zipKind, cfg, bad_files, poolVars, benchVars, unitVars, objVars>>

AddChapter(start, end) ==
    LET sliced1 == IF Truthy(start) THEN Drop(SecondPages, start[1]) ELSE SecondPages
        new_chapter == IF Truthy(end) THEN Take(sliced1, end[1]) ELSE sliced1
    IN
    /\ Counted
    /\ IF Truthy(end) /\ start = <<>>
       THEN \* assert type(start) is int, in the branch of end
            /\ cache' = SecondFetched(cache)
            /\ last' = Call("add_chapter", "ValueError")
            /\ UNCHANGED <<index, chapter_lengths>>
       ELSE IF FetchRaises
       THEN /\ cache' = SecondFetched(cache)
            /\ last' = Call("add_chapter", FetchError)
            /\ UNCHANGED <<index, chapter_lengths>>
       ELSE /\ cache' = SecondFetched(FetchedCache)
            /\ chapter_lengths' = Append(FetchedLengths(FetchedIndex), Len(new_chapter))
            /\ index' = FetchedIndex \o new_chapter
            /\ last' = Call("add_chapter", "none")
    /\ UNCHANGED <<namelist, zipKind, cfg, bad_files, poolVars, benchVars, unitVars, objVars>>

\* In this model a file that cannot be opened is never overwritten and a
\* file that can be opened stays openable, so what a task returns does not
\* depend on which other inputs of the batch ran before it: the batch is
\* evaluated in input order.  When a task raises, map() has run exactly the
\* inputs before it; a pool has run that task and any of the others.
\* The files a task leaves when page.save(dest) does not complete: neither
\* the worker, map_workers nor convert_pages has a handler that removes
\* anything, so what the save had written stays.  CacheCleared is a
\* handler that empties the directory instead.
CacheCleared(fs, dest) == Removed(fs, DOMAIN fs)
Unfinished(fs, dest) == SaveBegin(fs, dest)

\* What can happen to a convert_pages call from outside: nothing, the
\* save of one task failing on the file it writes (OSError: disk full,
\* permissions), or a SIGINT to the coordinating process while one task is
\* being opened / being saved.
Undisturbed == "none"
Events == {"OSError", "SIGINT", "SIGINT_saving"}
\* the exception a SIGINT ends the call with: only the process pool has
\* the handler that raises MPrunnerInterrupt
SigintError(inputs) ==
    IF MapKind(inputs) = "list" THEN "MPrunnerInterrupt" ELSE "KeyboardInterrupt"
\* the tasks that can have completed when task k is hit: the ones before
\* it under map(), any of the others in a pool
Completed(inputs, k) ==
    IF MapKind(inputs) = "iterator" THEN {1..(k - 1)}
    ELSE SUBSET ((1..Len(inputs)) \ {k})

ConvertPagesIn(fmtArg, ev, k) ==
    LET fmt == IF fmtArg # "none" THEN fmtArg ELSE cfg.img_format
        inputs == FetchedIndex
        n == Len(inputs)
        run == RunTasks(Identity(n), inputs, fmt, "none", cfg.ignore_page_err,
                        NoRun(FetchedCache))
        stop == FirstRaise(run)
        mapped == MapResult(MapKind(inputs), InInputOrder(run))
    IN
    /\ Counted
    /\ IF FetchRaises
       THEN /\ ev = Undisturbed
            /\ last' = Call("convert_pages", FetchError)
            /\ UNCHANGED <<cache, index, bad_files>>
       ELSE IF ev # Undisturbed
       THEN \* the exception of task k leaves convert_pages; a save that
            \* was under way leaves the file it was writing
            /\ k \in 1..n
            /\ \E W \in Completed(inputs, k) :
                 LET before == RunTasks(Ascending(W), inputs, fmt, "none",
                                        cfg.ignore_page_err, NoRun(FetchedCache))
                     saving == WorkerEnd(inputs[k], before.fs, TRUE) = "ok"
                 IN  /\ FirstRaise(before) = 0
                     /\ ev # "SIGINT" => saving
                     /\ cache' = IF ev = "SIGINT" THEN before.fs
                                 ELSE Unfinished(before.fs,
                                                 NewFp(inputs[k], fmt, "none", before.fs))
            /\ index' = inputs
            /\ last' = Call("convert_pages",
                            IF ev = "OSError" THEN ev ELSE SigintError(inputs))
            /\ UNCHANGED bad_files
       ELSE IF stop = 0
       THEN /\ bad_files' = BadFilesOf(mapped)
            /\ index' = IndexOf(mapped)
            /\ cache' = run.fs
            /\ last' = Call("convert_pages", "none")
       ELSE \* the exception leaves convert_pages before either assignment
            \E W \in SUBSET (1..n) :
                /\ stop \in W
                /\ MapKind(inputs) = "iterator" => W = 1..stop
                /\ cache' = RunTasks(Ascending(W), inputs, fmt, "none",
                                     cfg.ignore_page_err, NoRun(FetchedCache)).fs
                /\ index' = inputs
                /\ last' = Call("convert_pages", run.ends[stop])
                /\ UNCHANGED bad_files
    /\ UNCHANGED <<namelist, zipKind, cfg, chapter_lengths, poolVars, benchVars, unitVars, objVars>>

\* a call nothing happens to from outside
ConvertPages(fmtArg) == ConvertPagesIn(fmtArg, Undisturbed, 0)

\* a call that is hit by a write error or a SIGINT
ConvertPagesHit(fmtArg, ev, k) == ev \in Events /\ ConvertPagesIn(fmtArg, ev, k)

AddPage(fp, i) ==
    /\ Counted
    /\ IF FileAt(cache, fp) = "absent"
       THEN /\ last' = Call("add_page", "ValueError")
            /\ UNCHANGED index
       ELSE /\ index' = PyInsert(index, i, RawPath(fp))
            /\ last' = Call("add_page", "none")
    /\ UNCHANGED <<namelist, zipKind, cfg, cache, chapter_lengths, bad_files, poolVars, benchVars, unitVars, objVars>>

RemovePage(i) ==
    /\ Counted
    /\ IF PyPopOk(index, i)
       THEN /\ index' = PyPop(index, i)
            /\ last' = Call("remove_page", "none")
       ELSE /\ last' = Call("remove_page", "IndexError")
            /\ UNCHANGED index
    /\ UNCHANGED <<namelist, zipKind, cfg, cache, chapter_lengths, bad_files, poolVars, benchVars, unitVars, objVars>>


(* --------------------------- initial states --------------------------- *)
EmptyCache == [p \in {} |-> "absent"]
StartArgs == {<<>>, <<1>>}
EndArgs == {<<>>, <<1>>}
AddPagePaths == {MkPath("A", 1, SourceFmt)}
ListArgs == {-1, 0, 1}

NoUnit ==
    /\ call = [fn |-> "none"]
    /\ ret = NotReturned

ArchInit ==
    /\ is_zip \in BOOLEAN
    /\ namelist \in {Identity(n) : n \in 0..(IF is_zip THEN MaxEntries ELSE 0)}
    /\ NoUnit
    /\ zipKind \in [1..Len(namelist) -> Kinds]
    /\ cfg \in [pcount : {1, MaxProc}, ignore_page_err : BOOLEAN,
                img_format : {"keep"}]
    /\ cache = EmptyCache
    /\ index = <<>>
    /\ chapter_lengths = <<>>
    /\ bad_files = <<>>
    /\ last = NoCall
    /\ calls = 0

(* ------------------- map_workers, one batch in steps ------------------ *)
NoPage == Page(MkPath("", 0, ""))
\* a slot of the result object: not yet set, a returned TaskResult, the
\* KeyboardInterrupt() object the wrapper returns, or a raised exception
Pending == [tag |-> "pending", exc |-> "none", item |-> [ok |-> FALSE, page |-> NoPage]]
Returned(item) == [tag |-> "result", exc |-> "none", item |-> item]
InterruptObj == [tag |-> "interrupt", exc |-> "KeyboardInterrupt",
                 item |-> [ok |-> FALSE, page |-> NoPage]]
RaisedExc(e) == [tag |-> "raised", exc |-> e, item |-> [ok |-> FALSE, page |-> NoPage]]

IdleWorker == [st |-> "idle", task |-> 0, flag |-> FALSE, dest |-> NoPage.fp]
Mode == IF PCount(tasks) = 1 THEN "sync"
        ELSE IF multithread THEN "thread" ELSE "process"

PoolIdle ==
    /\ pc = "idle"
    /\ tasks = <<>>
    /\ batch_fmt = "keep"
    /\ workers = <<>>
    /\ next_task = 1
    /\ results = <<>>
    /\ signals = 0
    /\ hit_main = FALSE
    /\ hit_worker = FALSE
    /\ terminate_calls = 0
    /\ done_order = <<>>

\* Pool.map / ThreadPool.map store the result of input i in slot i
PoolCollectInOrder(res, i, val) ==
    LET k == CHOOSE j \in 1..Len(res) :
                res[j].tag = "pending" /\ \A h \in 1..(j - 1) : res[h].tag # "pending"
    IN  [res EXCEPT ![k] = val]
PoolCollect(res, i, val) == [res EXCEPT ![i] = val]

\* what a worker's task ends with when it gets as far as its end
TaskValue(src, fs) ==
    LET e == WorkerEnd(src, fs, cfg.ignore_page_err)
    IN  IF Raised(e) THEN RaisedExc(e)
        ELSE Returned(TaskResult(src, batch_fmt, "none", fs))

Ended(e) ==
    /\ pc' = "done"
    /\ last' = Call("convert_pages", e)

\* convert_pages up to its call of map_workers: the options snapshot,
\* fetch_pages, pcount and the branch map_workers takes
StartBatch(fmtArg) ==
    /\ pc = "idle"
    /\ ~FetchRaises
    /\ batch_fmt' = IF fmtArg # "none" THEN fmtArg ELSE cfg.img_format
    /\ index' = FetchedIndex
    /\ cache' = FetchedCache
    /\ tasks' = FetchedIndex
    /\ results' = [i \in 1..Len(FetchedIndex) |-> Pending]
    /\ workers' = [w \in 1..PCount(FetchedIndex) |-> IdleWorker]
    /\ next_task' = 1
    /\ pc' = IF PCount(FetchedIndex) = 1 THEN "sync_run" ELSE "pool_wait"
    /\ last' = Call("convert_pages", "running")
    /\ calls' = calls + 1
    /\ UNCHANGED <<namelist, zipKind, cfg, chapter_lengths, bad_files, multithread,
                   signals, hit_main, hit_worker, terminate_calls, done_order>>
    /\ UNCHANGED <<benchVars, unitVars, objVars>>

Running == pc \in {"pool_wait", "except", "unwind", "sync_run"}
Alive(w) == workers[w].st # "dead"

DispatchRuns(w) ==
    /\ pc \in {"pool_wait", "except", "sync_run"}
    /\ workers[w].st = "idle"
    /\ next_task <= Len(tasks)
    /\ next_task' = next_task + 1
    /\ workers' = [workers EXCEPT ![w] = [@ EXCEPT !.st = "open", !.task = next_task]]
    /\ UNCHANGED <<archVars, pc, multithread, tasks, batch_fmt, signals, hit_main,
                   hit_worker, terminate_calls, results, done_order>>
    /\ UNCHANGED <<benchVars, unitVars, objVars>>

\* a worker takes the next input; the wrapper of a worker whose
\* ctrl_c_entered is set returns KeyboardInterrupt() without running it
Dispatch(w) ==
    /\ pc \in {"pool_wait", "except", "sync_run"}
    /\ workers[w].st = "idle"
    /\ next_task <= Len(tasks)
    /\ next_task' = next_task + 1
    /\ IF workers[w].flag
       THEN /\ results' = PoolCollect(results, next_task, InterruptObj)
            /\ done_order' = Append(done_order, next_task)
            /\ UNCHANGED workers
       ELSE /\ workers' = [workers EXCEPT ![w] = [@ EXCEPT !.st = "open", !.task = next_task]]
            /\ UNCHANGED <<results, done_order>>
    /\ UNCHANGED <<archVars, pc, multithread, tasks, batch_fmt, signals, hit_main,
                   hit_worker, terminate_calls>>
    /\ UNCHANGED <<benchVars, unitVars, objVars>>

\* line 116, LossyFmt.quality = options["quality"]: an assignment to the
\* class attribute in the process the worker runs in.  A worker process of
\* Pool has its own copy of the class; with pcount == 1 and in a thread of
\* ThreadPool the worker runs in the coordinating process.
QualityAfter(q) == IF Mode = "process" THEN q ELSE img_quality

\* the worker opens its source: a failure result, an exception, or on to save
WorkerOpen(w) ==
    LET i == workers[w].task
        val == TaskValue(tasks[i], cache)
    IN
    /\ workers[w].st = "open"
    /\ IF WorkerEnd(tasks[i], cache, TRUE) = "ok"
       THEN /\ workers' = [workers EXCEPT ![w] =
                            [@ EXCEPT !.st = "saving",
                                      !.dest = NewFp(tasks[i], batch_fmt, "none", cache)]]
            /\ cache' = SaveBegin(cache, NewFp(tasks[i], batch_fmt, "none", cache))
            /\ lossy_quality' = QualityAfter(lossy_quality)
            /\ UNCHANGED <<results, pc, last, done_order>>
       ELSE IF Mode = "sync" /\ val.tag = "raised"
       THEN \* map() lets the exception through to the comprehension
            /\ workers' = [workers EXCEPT ![w] = [@ EXCEPT !.st = "idle", !.task = 0]]
            /\ Ended(val.exc)
            /\ UNCHANGED <<results, cache, done_order, lossy_quality>>
       ELSE /\ workers' = [workers EXCEPT ![w] = [@ EXCEPT !.st = "idle", !.task = 0]]
            /\ results' = PoolCollect(results, i, val)
            /\ done_order' = Append(done_order, i)
            /\ UNCHANGED <<cache, pc, last, lossy_quality>>
    /\ UNCHANGED <<namelist, zipKind, cfg, index, chapter_lengths, bad_files, calls,
                   multithread, tasks, batch_fmt, next_task, signals, hit_main,
                   hit_worker, terminate_calls>>
    /\ UNCHANGED <<benchVars, unitVars, book, pg>>

\* page.save(new_fp) completes and the worker returns (True, page)
WorkerSave(w) ==
    LET i == workers[w].task
        dest == workers[w].dest
    IN
    /\ workers[w].st = "saving"
    /\ cache' = SaveEnd(cache, dest)
    /\ results' = PoolCollect(results, i, Returned([ok |-> TRUE, page |-> Page(dest)]))
    /\ done_order' = Append(done_order, i)
    /\ workers' = [workers EXCEPT ![w] = [@ EXCEPT !.st = "idle", !.task = 0]]
    /\ UNCHANGED <<namelist, zipKind, cfg, index, chapter_lengths, bad_files, last, calls,
                   pc, multithread, tasks, batch_fmt, next_task, signals, hit_main,
                   hit_worker, terminate_calls>>
    /\ UNCHANGED <<benchVars, unitVars, objVars>>

\* Pool.terminate: every worker process is killed where it stands.  The
\* threads of a ThreadPool cannot be killed: each finishes the task it is in.
Killed == [w \in DOMAIN workers |-> [workers[w] EXCEPT !.st = "dead"]]
AfterTerminate == IF Mode = "process" THEN Killed ELSE workers

\* KeyboardInterrupt raised inside the task a worker is running: the
\* wrapper returns KeyboardInterrupt() for it and sets ctrl_c_entered; in
\* a worker between two tasks pool_CTRL_C_handler sets ctrl_c_entered
Interrupted(wk) == [wk EXCEPT !.st = "idle", !.task = 0, !.flag = TRUE]
InterruptedResults(res, W) ==
    [i \in 1..Len(res) |->
        IF \E w \in W : workers[w].st \in {"open", "saving"} /\ workers[w].task = i
        THEN InterruptObj ELSE res[i]]
InterruptedOrder(W) ==
    done_order \o Ascending({workers[w].task : w \in {v \in W : workers[v].st \in {"open", "saving"}}})
InterruptedWorkers(W) ==
    [w \in DOMAIN workers |->
        IF w \in W /\ Alive(w) THEN Interrupted(workers[w]) ELSE workers[w]]

\* SIGINT in the coordinating process: KeyboardInterrupt is raised in its
\* main thread, wherever that is
MainInterrupted ==
    CASE Mode = "process" /\ pc = "pool_wait" ->
            /\ pc' = "except"
            /\ UNCHANGED <<last, terminate_calls>>
            /\ workers' = workers
      [] Mode = "process" /\ pc \in {"except", "unwind"} ->
            \* raised in the handler or in the exit of the with block
            /\ Ended("KeyboardInterrupt")
            /\ terminate_calls' = terminate_calls + 1
            /\ workers' = Killed
      [] Mode = "thread" ->
            \* no handler around ThreadPool.map
            /\ Ended("KeyboardInterrupt")
            /\ terminate_calls' = terminate_calls + 1
            /\ workers' = workers
      [] OTHER ->
            \* pcount == 1: raised inside the task the comprehension is running
            /\ Ended("KeyboardInterrupt")
            /\ UNCHANGED terminate_calls
            /\ workers' = [w \in DOMAIN workers |->
                              [workers[w] EXCEPT !.st = "idle", !.task = 0]]

SigintMain ==
    /\ Running
    /\ signals < MaxSignals
    /\ signals' = signals + 1
    /\ hit_main' = TRUE
    /\ MainInterrupted
    /\ UNCHANGED <<namelist, zipKind, cfg, cache, index, chapter_lengths, bad_files,
                   calls, multithread, tasks, batch_fmt, next_task, results, hit_worker,
                   done_order>>
    /\ UNCHANGED <<benchVars, unitVars, objVars>>

\* SIGINT sent to one worker process
SigintWorker(w) ==
    /\ Running
    /\ Mode = "process"
    /\ Alive(w)
    /\ signals < MaxSignals
    /\ signals' = signals + 1
    /\ hit_worker' = TRUE
    /\ workers' = InterruptedWorkers({w})
    /\ results' = InterruptedResults(results, {w})
    /\ done_order' = InterruptedOrder({w})
    /\ UNCHANGED <<archVars, pc, multithread, tasks, batch_fmt, next_task, hit_main,
                   terminate_calls>>
    /\ UNCHANGED <<benchVars, unitVars, objVars>>

\* SIGINT sent to the process group (Ctrl-C at the terminal): the
\* coordinating process and every worker process receive it
SigintGroup ==
    /\ pc = "pool_wait"
    /\ Mode = "process"
    /\ signals < MaxSignals
    /\ signals' = signals + 1
    /\ hit_main' = TRUE
    /\ hit_worker' = TRUE
    /\ workers' = InterruptedWorkers(DOMAIN workers)
    /\ results' = InterruptedResults(results, DOMAIN workers)
    /\ done_order' = InterruptedOrder(DOMAIN workers)
    /\ pc' = "except"
    /\ UNCHANGED <<archVars, multithread, tasks, batch_fmt, next_task, terminate_calls>>
    /\ UNCHANGED <<benchVars, unitVars, objVars>>

\* lines 126-128: MPpool.terminate() in the handler
MainTerminate ==
    /\ pc = "except"
    /\ terminate_calls' = terminate_calls + 1
    /\ workers' = Killed
    /\ pc' = "unwind"
    /\ UNCHANGED <<archVars, multithread, tasks, batch_fmt, next_task, results,
                   signals, hit_main, hit_worker, done_order>>
    /\ UNCHANGED <<benchVars, unitVars, objVars>>

\* line 129: raise MPrunnerInterrupt(), through the exit of the with block
MainRaise ==
    /\ pc = "unwind"
    /\ terminate_calls' = terminate_calls + 1
    /\ Ended("MPrunnerInterrupt")
    /\ UNCHANGED <<namelist, zipKind, cfg, cache, index, chapter_lengths, bad_files,
                   calls, multithread, tasks, batch_fmt, workers, next_task, results,
                   signals, hit_main, hit_worker, done_order>>
    /\ UNCHANGED <<benchVars, unitVars, objVars>>

AllSet == \A i \in 1..Len(results) : results[i].tag # "pending"

\* Pool.map / ThreadPool.map return once every slot is set, or raise the
\* exception a task raised; either way the with block is left
MapReturn ==
    /\ pc = "pool_wait"
    /\ AllSet
    /\ terminate_calls' = terminate_calls + 1
    /\ workers' = AfterTerminate
    /\ IF \E i \in 1..Len(results) : results[i].tag = "raised"
       THEN \E i \in 1..Len(results) :
                /\ results[i].tag = "raised"
                /\ Ended(results[i].exc)
       ELSE /\ pc' = "comp1"
            /\ UNCHANGED last
    /\ UNCHANGED <<namelist, zipKind, cfg, cache, index, chapter_lengths, bad_files,
                   calls, multithread, tasks, batch_fmt, next_task, results, signals,
                   hit_main, hit_worker, done_order>>
    /\ UNCHANGED <<benchVars, unitVars, objVars>>

\* the object map_workers returned, as convert_pages iterates it
ResultObject == MapResult(MapKind(tasks), [i \in 1..Len(results) |-> results[i].item])

\* line 278: the first comprehension; item[0] of a KeyboardInterrupt()
\* raises TypeError.  With pcount == 1 it is this comprehension that has
\* advanced map() through every task.
Comp1 ==
    /\ \/ pc = "comp1"
       \/ pc = "sync_run" /\ AllSet
    /\ IF \E i \in 1..Len(results) : results[i].tag = "interrupt"
       THEN /\ Ended("TypeError")
            /\ UNCHANGED bad_files
       ELSE /\ bad_files' = BadFilesOf(ResultObject)
            /\ pc' = "comp2"
            /\ UNCHANGED last
    /\ UNCHANGED <<namelist, zipKind, cfg, cache, index, chapter_lengths, calls,
                   multithread, tasks, batch_fmt, workers, next_task, results, signals,
                   hit_main, hit_worker, terminate_calls, done_order>>
    /\ UNCHANGED <<benchVars, unitVars, objVars>>

\* line 279: the second comprehension over the same object
Comp2 ==
    /\ pc = "comp2"
    /\ index' = IndexOf(ResultObject)
    /\ Ended("none")
    /\ UNCHANGED <<namelist, zipKind, cfg, cache, chapter_lengths, bad_files, calls,
                   multithread, tasks, batch_fmt, workers, next_task, results, signals,
                   hit_main, hit_worker, terminate_calls, done_order>>
    /\ UNCHANGED <<benchVars, unitVars, objVars>>

(* ------------------- extract(count) and compute_fmt_sizes ------------- *)
Range(s) == {s[i] : i \in 1..Len(s)}

\* extract, lines 207-218: the assertion, the guard on the sample count and
\* the entries the slice selects
SampleTooSmallLoose(count, n) == count > n
SampleTooSmall(count, n) == count * 2 > n
ExtractEnd(count) ==
    IF ~is_zip THEN "ValueError"
    ELSE IF ~(zipN >= 1) THEN "AssertionError"
    ELSE IF count > 0 /\ SampleTooSmall(count, zipN) THEN "ValueError"
    ELSE "none"
Selected(count) ==
    IF count > 0
    THEN LET delta == zipN \div 2
         IN  PySlice(namelist, delta - count, delta + count, 2)
    ELSE namelist

\* page.fp.stat().st_size
StSize(page) ==
    IF page.fp.dir = "A" THEN src_size
    ELSE sizes[CHOOSE j \in 1..Len(declared) : declared[j] = page.fp.ext]
NBytes(pages) == SumSeq([i \in 1..Len(pages) |-> StSize(pages[i])])

\* the tuples (nbytes, fmt.desc, fmt.name); DescRank is the place of a
\* format's (desc, name) among the formats' in the order of str
NoSize == [nbytes |-> -1, desc |-> "", name |-> ""]
FSize(nbytes, desc, name) == [nbytes |-> nbytes, desc |-> desc, name |-> name]
DescRank(desc) == CASE desc = "jpeg" -> 1 [] desc = "png" -> 2 [] OTHER -> 3
TupleLess(a, b) ==
    \/ a.nbytes < b.nbytes
    \/ a.nbytes = b.nbytes /\ DescRank(a.desc) < DescRank(b.desc)

\* sorted(fmt_fsizes): the stable sort of python, on whole tuples
RECURSIVE Sorted(_)
Sorted(s) ==
    IF s = <<>> THEN <<>>
    ELSE LET k == CHOOSE i \in 1..Len(s) :
                    /\ \A j \in 1..Len(s) : ~TupleLess(s[j], s[i])
                    /\ \A j \in 1..(i - 1) : TupleLess(s[i], s[j])
         IN  <<s[k]>> \o Sorted(SubSeq(s, 1, k - 1) \o SubSeq(s, k + 1, Len(s)))

\* lines 318-323: the candidates sorted, the source put in front
ReportRanked(source, fsizes) == Sorted(<<source>> \o fsizes)
Report(source, fsizes) == PyInsert(Sorted(fsizes), 0, source)

BenchIdle ==
    /\ samples_count = 0
    /\ declared = <<>>
    /\ src_size = 0
    /\ sizes = <<>>
    /\ bpc = "idle"
    /\ sample = <<>>
    /\ source_pages = <<>>
    /\ source_fsize = NoSize
    /\ fmt_fsizes = <<>>
    /\ report = <<>>

BenchEnded(e) ==
    /\ bpc' = "done"
    /\ last' = Call("compute_fmt_sizes", e)

\* line 300: source_pages = self.extract(count=config.samples_count)
ExtractSample ==
    /\ bpc = "idle"
    /\ IF ExtractEnd(samples_count) # "none"
       THEN /\ BenchEnded(ExtractEnd(samples_count))
            /\ UNCHANGED <<cache, sample, source_pages>>
       ELSE /\ sample' = Selected(samples_count)
            /\ cache' = ExtractedCache(cache, Range(Selected(samples_count)))
            /\ source_pages' = SortedPages(ExtractedCache(cache, Range(Selected(samples_count))))
            /\ bpc' = "extracted"
            /\ UNCHANGED last
    /\ calls' = calls + 1
    /\ UNCHANGED <<namelist, zipKind, cfg, index, chapter_lengths, bad_files, poolVars, unitVars, objVars,
                   samples_count, declared, src_size, sizes, source_fsize, fmt_fsizes,
                   report>>

\* lines 301-313: the size and the format of the source pages
SourceFSize ==
    /\ bpc = "extracted"
    /\ IF WorkerEnd(source_pages[1], cache, FALSE) # "ok"
       THEN /\ BenchEnded(WorkerEnd(source_pages[1], cache, FALSE))
            /\ UNCHANGED <<source_fsize, fmt_fsizes>>
       ELSE /\ source_fsize' = FSize(NBytes(source_pages), "Source",
                                     FmtOfFile(source_pages[1].fp,
                                               FileAt(cache, source_pages[1].fp)))
            /\ fmt_fsizes' = [j \in 1..Len(declared) |-> NoSize]
            /\ bpc' = "formats"
            /\ UNCHANGED last
    /\ UNCHANGED <<namelist, zipKind, cfg, cache, index, chapter_lengths, bad_files,
                   calls, poolVars, unitVars, objVars, samples_count, declared, src_size, sizes, sample,
                   source_pages, report>>

\* compute_single_fmt for declared[j], lines 284-296, run by map_workers
\* (multithread=True): in declaration order when pcount == 1, in any order
\* otherwise; the result of input j is element j
ComputeSingleFmt(j) ==
    LET fmt == declared[j]
        run == RunTasks(Identity(Len(source_pages)), source_pages, fmt, FmtDir(fmt),
                        cfg.ignore_page_err, NoRun(cache))
        converted_pages == PagesOf(SelectSeq(run.items, IsDone))
    IN
    /\ bpc = "formats"
    /\ fmt_fsizes[j] = NoSize
    /\ PCount(declared) = 1 => \A h \in 1..(j - 1) : fmt_fsizes[h] # NoSize
    /\ IF FirstRaise(run) # 0
       THEN /\ BenchEnded(run.ends[FirstRaise(run)])
            /\ UNCHANGED <<cache, fmt_fsizes>>
       ELSE /\ cache' = run.fs
            /\ fmt_fsizes' = [fmt_fsizes EXCEPT ![j] = FSize(NBytes(converted_pages), fmt, fmt)]
            /\ UNCHANGED <<bpc, last>>
    /\ UNCHANGED <<namelist, zipKind, cfg, index, chapter_lengths, bad_files, calls,
                   poolVars, unitVars, objVars, samples_count, declared, src_size, sizes, sample,
                   source_pages, source_fsize, report>>

\* lines 316-323: the report
Rank ==
    /\ bpc = "formats"
    /\ \A j \in 1..Len(fmt_fsizes) : fmt_fsizes[j] # NoSize
    /\ report' = Report(source_fsize, fmt_fsizes)
    /\ BenchEnded("none")
    /\ UNCHANGED <<namelist, zipKind, cfg, cache, index, chapter_lengths, bad_files,
                   calls, poolVars, unitVars, objVars, samples_count, declared, src_size, sizes, sample,
                   source_pages, source_fsize, fmt_fsizes>>

\* byte sizes tried for one page
SourceSizes == {1000}
Sizes == {800, 900, 1200}
\* the sequences without repetition over a set
Arrangements(S) ==
    {s \in UNION {[1..n -> S] : n \in 1..Cardinality(S)} :
        \A i, j \in 1..Len(s) : i # j => s[i] # s[j]}

BenchInit ==
    /\ \E n \in 0..MaxSampleEntries : namelist = Identity(n)
    /\ zipKind = [e \in 1..zipN |-> "src_ok"]
    /\ cfg \in [pcount : {1, MaxProc}, ignore_page_err : {TRUE}, img_format : {"keep"}]
    /\ cache = EmptyCache
    /\ index = <<>>
    /\ chapter_lengths = <<>>
    /\ bad_files = <<>>
    /\ last = NoCall
    /\ calls = 0
    /\ PoolIdle
    /\ multithread = FALSE
    /\ is_zip = TRUE
    /\ NoUnit
    /\ ObjIdle
    /\ samples_count \in 0..MaxSamples
    /\ declared \in Arrangements(Formats)
    /\ src_size \in SourceSizes
    /\ sizes \in [1..Len(declared) -> Sizes]
    /\ bpc = "idle"
    /\ sample = <<>>
    /\ source_pages = <<>>
    /\ source_fsize = NoSize
    /\ fmt_fsizes = <<>>
    /\ report = <<>>

\* compute_fmt_sizes on an archive whose pages and chapters have been
\* fetched: every entry is in the cache and in the index
FetchedBenchInit ==
    /\ \E n \in 1..MaxSampleEntries : namelist = Identity(n)
    /\ zipKind = [e \in 1..zipN |-> "src_ok"]
    /\ cfg \in [pcount : {1, MaxProc}, ignore_page_err : {TRUE}, img_format : {"keep"}]
    /\ cache = ExtractedCache(EmptyCache, AllEntries)
    /\ index = SortedPages(ExtractedCache(EmptyCache, AllEntries))
    /\ chapter_lengths = <<zipN>>
    /\ bad_files = <<>>
    /\ last = Call("fetch_chapters", "none")
    /\ calls = 0
    /\ PoolIdle
    /\ multithread = FALSE
    /\ is_zip = TRUE
    /\ NoUnit
    /\ ObjIdle
    /\ samples_count \in 0..MaxSamples
    /\ declared \in Arrangements(Formats)
    /\ src_size \in SourceSizes
    /\ sizes \in [1..Len(declared) -> Sizes]
    /\ bpc = "idle"
    /\ sample = <<>>
    /\ source_pages = <<>>
    /\ source_fsize = NoSize
    /\ fmt_fsizes = <<>>
    /\ report = <<>>

(* ------------------ functions of the page transform ------------------- *)
\* sizes tried: every (w, h) up to MaxDim, and the sizes of the examples
Abs(n) == IF n < 0 THEN -n ELSE n
Ceil(a, b) == (a + b - 1) \div b
Pairs(S) == {<<a, b>> : a \in S, b \in S}
ImgSizes == Pairs(1..MaxDim) \cup {<<100, 100>>, <<1000, 500>>}
Viewports == Pairs(1..MaxDim) \cup {<<50, 50>>, <<200, 200>>}
\* options["size"]: the viewports, and the tuples with a 0 (no resize asked)
SizeOptions == Pairs(0..MaxDim) \cup {<<50, 50>>, <<200, 200>>}

\* round_aspect, lines 149-150: of floor(number) and ceil(number) the one
\* with the smaller key, at least 1.  number is num / den and keyLess(a, b)
\* says that key(a) < key(b), both exactly.  The keys are floats: when
\* they are equal as fractions, the rounding of the two divisions decides
\* which one min() takes, and tie is that decision.
Ties == {"floor", "ceil"}
Nearer(num, den, keyLess(_, _), tie) ==
    IF keyLess(Ceil(num, den), num \div den) THEN Ceil(num, den)
    ELSE IF keyLess(num \div den, Ceil(num, den)) THEN num \div den
    ELSE IF tie = "ceil" THEN Ceil(num, den) ELSE num \div den
\* max(..., 1)
Unclamped(n) == n
AtLeastOne(n) == Max(n, 1)
round_aspect(num, den, keyLess(_, _), tie) == AtLeastOne(Nearer(num, den, keyLess, tie))

\* get_size_that_preserves_ratio, lines 152-163, in exact arithmetic:
\* aspect = width / height; abs(aspect - n / y) is compared as
\* |width * y - n * height|, abs(aspect - x / n) as |width * n - x * height| / n
get_size_that_preserves_ratio(img_size, size_of_viewport, tie) ==
    LET x == size_of_viewport[1]
        y == size_of_viewport[2]
        width == img_size[1]
        height == img_size[2]
        KeyX(a, b) == Abs(width * y - a * height) < Abs(width * y - b * height)
        KeyY(a, b) ==
            IF b = 0 THEN FALSE
            ELSE IF a = 0 THEN Abs(width * b - x * height) > 0
            ELSE Abs(width * a - x * height) * b < Abs(width * b - x * height) * a
    IN  IF x * height >= width * y
        THEN <<round_aspect(y * width, height, KeyX, tie), y>>
        ELSE <<x, round_aspect(x * height, width, KeyY, tie)>>

\* Page.landscape, page.py:110
landscape(size) == size[1] > size[2]
\* all(options["size"])
AllSize(size) == size[1] # 0 /\ size[2] # 0
Reversed(size) == <<size[2], size[1]>>

\* convert_page_worker, lines 94-114: what img.size is after the block and
\* whether img.resize was called
NewSize(img_size, size) == IF landscape(img_size) THEN Reversed(size) ELSE size
ResizeSize(img_size, size, keep_ratio, tie) ==
    IF keep_ratio THEN get_size_that_preserves_ratio(img_size, NewSize(img_size, size), tie)
    ELSE NewSize(img_size, size)
Downscaling(img_size, size, nodown) ==
    /\ img_size[1] > NewSize(img_size, size)[1]
    /\ img_size[2] > NewSize(img_size, size)[2]
    /\ ~nodown
Transformed(img_size, size, keep_ratio, noup, nodown, tie) ==
    IF ~AllSize(size) THEN [resized |-> FALSE, size |-> img_size]
    ELSE IF Downscaling(img_size, size, nodown)
    THEN [resized |-> TRUE, size |-> ResizeSize(img_size, size, keep_ratio, tie)]
    ELSE IF ~noup
    THEN [resized |-> TRUE, size |-> ResizeSize(img_size, size, keep_ratio, tie)]
    ELSE [resized |-> FALSE, size |-> img_size]

Returning(value) == [exc |-> "none", value |-> value]

\* everything but the call under way at rest
Idle ==
    /\ is_zip = TRUE
    /\ namelist = <<>>
    /\ zipKind = <<>>
    /\ cfg = [pcount |-> 1, ignore_page_err |-> TRUE, img_format |-> "keep"]
    /\ cache = EmptyCache
    /\ index = <<>>
    /\ chapter_lengths = <<>>
    /\ bad_files = <<>>
    /\ last = NoCall
    /\ calls = 0
    /\ PoolIdle
    /\ multithread = FALSE
    /\ BenchIdle
    /\ ObjIdle

ResizeCalls ==
    [fn : {"resize"}, img_size : ImgSizes, size : SizeOptions,
     keep_ratio : BOOLEAN, noup : BOOLEAN, nodown : BOOLEAN]
RatioCalls ==
    [fn : {"get_size_that_preserves_ratio"}, img_size : ImgSizes, size_of_viewport : Viewports]

\* the size block of convert_page_worker on one image
Resize ==
    /\ call.fn = "resize"
    /\ ret = NotReturned
    /\ \E tie \in Ties :
        ret' = Returning(Transformed(call.img_size, call.size, call.keep_ratio,
                                     call.noup, call.nodown, tie))
    /\ UNCHANGED <<archVars, poolVars, benchVars, is_zip, call, objVars>>

GetSizeThatPreservesRatio ==
    /\ call.fn = "get_size_that_preserves_ratio"
    /\ ret = NotReturned
    /\ \E tie \in Ties :
        ret' = Returning(get_size_that_preserves_ratio(call.img_size,
                                                       call.size_of_viewport, tie))
    /\ UNCHANGED <<archVars, poolVars, benchVars, is_zip, call, objVars>>

\* SpecPage: the size block and get_size_that_preserves_ratio, each on
\* every input of the bounded sets
PageInit ==
    /\ Idle
    /\ call \in ResizeCalls \cup RatioCalls
    /\ ret = NotReturned

PageNext ==
    \/ Resize
    \/ GetSizeThatPreservesRatio

(* ------------------------------ human_sort ---------------------------- *)
\* A path is the sequence of its characters.  CharRank is the order of
\* the code points of the characters used: "/" < digits < letters.
Digits == <<"0", "1", "2", "3", "4", "5", "6", "7", "8", "9">>
IsDigit(c) == \E d \in 1..Len(Digits) : Digits[d] = c
DigitVal(c) == (CHOOSE d \in 1..Len(Digits) : Digits[d] = c) - 1
CharRank(c) ==
    IF c = "/" THEN 0
    ELSE IF IsDigit(c) THEN 1 + DigitVal(c)
    ELSE CASE c = "c" -> 11 [] c = "p" -> 12 [] c = "v" -> 13 [] OTHER -> 14

\* str < str
RECURSIVE StrLess(_, _)
StrLess(a, b) ==
    IF b = <<>> THEN FALSE
    ELSE IF a = <<>> THEN TRUE
    ELSE IF Head(a) # Head(b) THEN CharRank(Head(a)) < CharRank(Head(b))
    ELSE StrLess(Tail(a), Tail(b))

\* int(text) of a run of digits
RECURSIVE IntOf(_)
IntOf(run) ==
    IF run = <<>> THEN 0 ELSE 10 * IntOf(SubSeq(run, 1, Len(run) - 1)) + DigitVal(run[Len(run)])

\* the longest prefix of s made of digits (digit = TRUE) or of no digit
RECURSIVE RunLen(_, _)
RunLen(s, digit) ==
    IF s = <<>> \/ IsDigit(Head(s)) # digit THEN 0 ELSE 1 + RunLen(Tail(s), digit)

\* split("([0-9]+)", key): text, digits, text, ..., text
RECURSIVE ReSplit(_, _)
ReSplit(s, digit) ==
    LET n == RunLen(s, digit)
    IN  IF digit THEN <<Take(s, n)>> \o ReSplit(Drop(s, n), FALSE)
        ELSE IF Drop(s, n) = <<>> THEN <<Take(s, n)>>
        ELSE <<Take(s, n)>> \o ReSplit(Drop(s, n), TRUE)

\* alphanum_key: the digit runs converted with int(), the rest kept.  The
\* elements at even places are the ints, in every key.
IsInt(i) == i % 2 = 0
alphanum_key(key) ==
    LET parts == ReSplit(key, FALSE)
    IN  [i \in 1..Len(parts) |-> IF IsInt(i) THEN IntOf(parts[i]) ELSE parts[i]]

\* list < list, element by element
RECURSIVE ListLess(_, _, _)
ListLess(a, b, i) ==
    IF i > Len(b) THEN FALSE
    ELSE IF i > Len(a) THEN TRUE
    ELSE IF a[i] # b[i] THEN (IF IsInt(i) THEN a[i] < b[i] ELSE StrLess(a[i], b[i]))
    ELSE ListLess(a, b, i + 1)

\* sorted(lst, key=alphanum_key): stable
RECURSIVE SortedByKey(_)
SortedByKey(lst) ==
    IF lst = <<>> THEN <<>>
    ELSE LET k == CHOOSE i \in 1..Len(lst) :
                    /\ \A j \in 1..Len(lst) :
                            ~ListLess(alphanum_key(lst[j]), alphanum_key(lst[i]), 1)
                    /\ \A j \in 1..(i - 1) :
                            ListLess(alphanum_key(lst[i]), alphanum_key(lst[j]), 1)
         IN  <<lst[k]>> \o SortedByKey(SubSeq(lst, 1, k - 1) \o SubSeq(lst, k + 1, Len(lst)))

\* human_sort, util.py:42-49; lst[0] of an empty list raises IndexError
human_sort(lst) ==
    IF lst = <<>> THEN [exc |-> "IndexError"]
    ELSE Returning(SortedByKey(lst))

\* the file names tried, relative to the cache directory
PathNames ==
    { <<"p", "1">>, <<"p", "2">>, <<"p", "1", "0">>, <<"p", "0", "1">>,
      <<"c", "2", "/", "x">>, <<"c", "1", "0", "/", "x">> }
\* the orders rglob can list at most MaxListed of them in
Listings ==
    {l \in UNION {[1..n -> PathNames] : n \in 0..MaxListed} :
        \A i, j \in 1..Len(l) : i # j => l[i] # l[j]}
SortCalls == [fn : {"human_sort"}, lst : Listings]

HumanSort ==
    /\ call.fn = "human_sort"
    /\ ret = NotReturned
    /\ ret' = human_sort(call.lst)
    /\ UNCHANGED <<archVars, poolVars, benchVars, is_zip, call, objVars>>

(* ------------------------------- write_zip ---------------------------- *)
\* str(n) for n >= 0, and f"{n:0{width}d}"
RECURSIVE StrOfInt(_)
StrOfInt(n) ==
    IF n < 10 THEN <<Digits[n + 1]>> ELSE StrOfInt(n \div 10) \o <<Digits[(n % 10) + 1]>>
Unpadded(n, width) == StrOfInt(n)
ZeroPadded(n, width) ==
    [i \in 1..Max(width - Len(StrOfInt(n)), 0) |-> "0"] \o StrOfInt(n)

\* the entries write_zip writes, in the order it writes them: for each
\* page the directory it is put under (<<>>: none) and its rel_path
ZipEntry(chapters, chapter_prefix, i, page) ==
    [parent   |-> IF Len(chapters) > 1
                  THEN chapter_prefix \o ZeroPadded(i, Len(StrOfInt(Len(chapters))))
                  ELSE <<>>,
     rel_path |-> page.rel_path]
write_zip(chapters, chapter_prefix) ==
    Flatten([i \in 1..Len(chapters) |->
                [k \in 1..Len(chapters[i]) |->
                    ZipEntry(chapters, chapter_prefix, i, chapters[i][k])]])

\* the chapters tried: up to MaxVaried chapters of 0..MaxChapterPages
\* pages each, and up to MaxChapters chapters of one page each; page k of
\* chapter c has the rel_path <<c, k>>
ChapterSizes ==
    UNION {[1..n -> 0..MaxChapterPages] : n \in 0..MaxVaried}
    \cup {[c \in 1..n |-> 1] : n \in (MaxVaried + 1)..MaxChapters}
ChaptersOf(sz) == [c \in 1..Len(sz) |-> [k \in 1..sz[c] |-> [rel_path |-> <<c, k>>]]]
ZipCalls ==
    [fn : {"write_zip"}, chapters : {ChaptersOf(sz) : sz \in ChapterSizes},
     chapter_prefix : {<<"v">>}]

WriteZip ==
    /\ call.fn = "write_zip"
    /\ ret = NotReturned
    /\ ret' = Returning(write_zip(call.chapters, call.chapter_prefix))
    /\ UNCHANGED <<archVars, poolVars, benchVars, is_zip, call, objVars>>

(* ---------------------------- config.pcount --------------------------- *)
\* pcount(), config.py:38-50: processes is the configured count,
\* logical_cores what os.cpu_count() returns (<<>>: None, <<n>>: n)
default_value == 4
PcountKind(processes, logical_cores) ==
    IF processes > 0 THEN processes
    ELSE IF logical_cores = <<>> THEN default_value
    ELSE logical_cores[1] - 1
pcount(processes, logical_cores) ==
    IF processes > 0 THEN processes
    ELSE IF logical_cores = <<>> THEN default_value
    ELSE IF logical_cores[1] \notin 1..2 THEN logical_cores[1] - 1
    ELSE logical_cores[1]

\* map_workers, line 109, on n inputs
PcountCalls ==
    [fn : {"pcount"}, processes : (-1)..MaxProc,
     logical_cores : {<<>>} \cup {<<c>> : c \in 1..MaxCores}, n : 0..MaxInputs]

Pcount ==
    /\ call.fn = "pcount"
    /\ ret = NotReturned
    /\ ret' = Returning(Min(call.n, pcount(call.processes, call.logical_cores)))
    /\ UNCHANGED <<archVars, poolVars, benchVars, is_zip, call, objVars>>

\* SpecUtil: human_sort, write_zip and the worker count, each on every
\* input of the bounded sets
UtilInit ==
    /\ Idle
    /\ call \in SortCalls \cup ZipCalls \cup PcountCalls
    /\ ret = NotReturned

UtilNext ==
    \/ HumanSort
    \/ WriteZip
    \/ Pcount

(* ----------------------------- write_archive -------------------------- *)
\* Page.__init__, page.py:19-22: the path below the archive's own cache
\* directory
RelDir(d) == IF d \in {"A", "B"} THEN "" ELSE CHOOSE f \in Formats : FmtDir(f) = d
RelPath(fp) == [fp EXCEPT !.dir = RelDir(fp.dir)]

ImplementedFormats == {"cbz", "zip", "epub"}
VALID_BOOK_FORMATS == {"cbz", "zip", "epub", "mobi"}
\* the names write_archive is called with, and file_name: "" (the current
\* directory), a name in a directory that exists, one in a directory that
\* does not
BookFormats == {"cbz", "zip", "epub", "mobi", "pdf"}
FileNames == {"", "out/book", "missing/book"}
chapter_prefix == <<"v">>

\* a page as write_zip reads it
ZipPage(page) == [rel_path |-> RelPath(page.fp)]
ZipChapters(chapters) ==
    [c \in 1..Len(chapters) |-> [k \in 1..Len(chapters[c]) |-> ZipPage(chapters[c][k])]]
\* the file ZipFile(save_path, "w") leaves: closed with every entry, or
\* left as it was when page.rel_path raised
Container(kind, closed, entries) == [kind |-> kind, closed |-> closed, entries |-> entries]
IsContainer(b) == b \notin {NoBook, OldBook}
\* the pages of the chapters before the first one that is not a Page
BeforeRaw(pages) ==
    LET raw == {i \in 1..Len(pages) : ~pages[i].isPage}
    IN  IF raw = {} THEN pages
        ELSE Take(pages, (CHOOSE i \in raw : \A j \in raw : i <= j) - 1)
\* the chapters cut at the first entry that is not a Page, empty ones kept
ChaptersBeforeRaw(chapters) ==
    LET n == Len(BeforeRaw(Flatten(chapters)))
        Before(c) == Len(Flatten(SubSeq(chapters, 1, c - 1)))
    IN  [c \in 1..Len(chapters) |->
            Take(chapters[c], Max(Min(n - Before(c), Len(chapters[c])), 0))]

WriteCall(book_format, file_name, exc) ==
    [op |-> "write_archive", exc |-> exc, book_format |-> book_format,
     file_name |-> file_name]

WriteArchive(book_format, file_name) ==
    LET lens == FetchedLengths(FetchedIndex)
        chapters == CutChapters(FetchedIndex, lens)
        pages == Flatten(chapters)
    IN
    /\ Counted
    /\ IF book_format \notin VALID_BOOK_FORMATS
       THEN /\ last' = WriteCall(book_format, file_name, "ValueError")
            /\ UNCHANGED <<book, cache, index, chapter_lengths>>
       ELSE IF file_name = "missing/book"
       THEN /\ last' = WriteCall(book_format, file_name, "ValueError")
            /\ UNCHANGED <<book, cache, index, chapter_lengths>>
       ELSE IF book_format = "mobi"
       THEN \* new_path.unlink() comes before the branch on the format
            /\ book' = NoBook
            /\ last' = WriteCall(book_format, file_name, "NotImplementedError")
            /\ UNCHANGED <<cache, index, chapter_lengths>>
       ELSE IF FetchRaises
       THEN /\ book' = NoBook
            /\ last' = WriteCall(book_format, file_name, FetchError)
            /\ UNCHANGED <<cache, index, chapter_lengths>>
       ELSE /\ index' = FetchedIndex
            /\ cache' = FetchedCache
            /\ chapter_lengths' = lens
            /\ IF book_format = "epub"
               THEN /\ book' = Container("epub", TRUE, [i \in 1..Len(pages) |-> pages[i].fp])
                    /\ last' = WriteCall(book_format, file_name, "none")
               ELSE IF \E i \in 1..Len(pages) : ~pages[i].isPage
               THEN /\ book' = Container("zip", FALSE,
                                         write_zip(ZipChapters(ChaptersBeforeRaw(chapters)),
                                                   chapter_prefix))
                    /\ last' = WriteCall(book_format, file_name, "AttributeError")
               ELSE /\ book' = Container("zip", TRUE,
                                         write_zip(ZipChapters(chapters), chapter_prefix))
                    /\ last' = WriteCall(book_format, file_name, "none")
    /\ UNCHANGED <<namelist, zipKind, cfg, bad_files, poolVars, benchVars, unitVars,
                   lossy_quality, pg>>

(* -------------------------------- Page -------------------------------- *)
\* Image objects: the file an image was opened from, whether it has been
\* changed since (convert, resize) and whether it is still open
NoImg == [of |-> "none", edited |-> FALSE, live |-> FALSE]
Opened(fp) == [of |-> fp, edited |-> FALSE, live |-> TRUE]
\* Image.open(fp) raises unless the file is there and is an image
CanOpen(fs, fp) == FileAt(fs, fp) \in {"src_ok", "src_unsupported", "out"}

\* Page.__init__: fp, rel_path, name, stem; no image, no format, closed.
\* opens counts the calls of Image.open this object has made.
NameOf(fp) == <<fp.stem, fp.ext>>
PageObj(fp) ==
    [fp |-> fp, rel_path |-> RelPath(fp), name |-> NameOf(fp), stem |-> fp.stem,
     img |-> NoImg, fmt |-> "none", closed |-> TRUE, opens |-> 0]

\* the img getter, page.py:67-80: what the page is afterwards, and the
\* image it returns
ImgRaises(fs, page) == page.closed /\ ~CanOpen(fs, page.fp)
AfterImg(page) ==
    IF page.closed
    THEN [page EXCEPT !.img = Opened(page.fp), !.closed = FALSE, !.opens = @ + 1]
    ELSE page
\* the fmt getter, page.py:30-56: _fmt if it is set, else the format of
\* self.img; KeyError for a format that is not recognised
FmtRaises(fs, page) ==
    page.fmt = "none" /\ FileAt(fs, AfterImg(page).img.of) = "src_unsupported"
FmtOf(fs, page) ==
    IF page.fmt # "none" THEN page.fmt
    ELSE FmtOfFile(AfterImg(page).img.of, FileAt(fs, AfterImg(page).img.of))
AfterFmt(page) == IF page.fmt # "none" THEN page ELSE AfterImg(page)

\* save, page.py:115-126, after self.fmt.save(self.img, dest) has written
SavedKeepsPath(page, dest) ==
    [AfterImg(AfterFmt(page)) EXCEPT !.img.live = FALSE, !.closed = TRUE]
SavedPage(page, dest) ==
    [AfterImg(AfterFmt(page)) EXCEPT
        !.fp = dest, !.name = NameOf(dest), !.stem = dest.stem,
        !.img.live = FALSE, !.closed = TRUE]

\* __reduce__, page.py:128-137: the class and (self.fp,); unpickling calls
\* Page(fp)
ReducedWhole(page) == page
Reduced(page) == PageObj(page.fp)

\* the paths a Page is made for and saved to, and the bound on Image.open
MaxOpens == 3
PagePaths == {MkPath("A", 1, SourceFmt)}
Dests == {MkPath("A", 1, SourceFmt), MkPath("A", 1, "jpeg"), MkPath(FmtDir("jpeg"), 1, "jpeg")}
Ret(value) == [exc |-> "none", value |-> value]
Raise(e) == [exc |-> e, value |-> "none"]

ImgGet ==
    /\ pg # NoPg
    /\ pg.opens < MaxOpens
    /\ call' = [fn |-> "img"]
    /\ IF ImgRaises(cache, pg)
       THEN /\ ret' = Raise("IOError")
            /\ UNCHANGED pg
       ELSE /\ pg' = AfterImg(pg)
            /\ ret' = Ret(AfterImg(pg).img)
    /\ UNCHANGED <<archVars, poolVars, benchVars, is_zip, book, lossy_quality>>

\* the img setter, page.py:82-90, with an image changed by the transform
ImgSet ==
    /\ pg # NoPg
    /\ ~pg.closed
    /\ call' = [fn |-> "img.setter"]
    /\ pg' = [pg EXCEPT !.img.edited = TRUE, !.closed = FALSE]
    /\ ret' = Ret("none")
    /\ UNCHANGED <<archVars, poolVars, benchVars, is_zip, book, lossy_quality>>

FmtGet ==
    /\ pg # NoPg
    /\ pg.opens < MaxOpens
    /\ call' = [fn |-> "fmt"]
    /\ IF pg.fmt = "none" /\ ImgRaises(cache, pg)
       THEN /\ ret' = Raise("IOError")
            /\ UNCHANGED pg
       ELSE /\ pg' = AfterFmt(pg)
            /\ ret' = IF FmtRaises(cache, pg) THEN Raise("KeyError")
                      ELSE Ret(FmtOf(cache, pg))
    /\ UNCHANGED <<archVars, poolVars, benchVars, is_zip, book, lossy_quality>>

\* the fmt setter, page.py:58-65
FmtSet(new) ==
    /\ pg # NoPg
    /\ call' = [fn |-> "fmt.setter", new |-> new]
    /\ pg' = [pg EXCEPT !.fmt = new]
    /\ ret' = Ret("none")
    /\ UNCHANGED <<archVars, poolVars, benchVars, is_zip, book, lossy_quality>>

Save(dest) ==
    /\ pg # NoPg
    /\ pg.opens < MaxOpens
    /\ call' = [fn |-> "save", dest |-> dest]
    /\ IF pg.fmt = "none" /\ ImgRaises(cache, pg)
       THEN /\ ret' = Raise("IOError")
            /\ UNCHANGED <<pg, cache>>
       ELSE IF FmtRaises(cache, pg)
       THEN /\ ret' = Raise("KeyError")
            /\ pg' = AfterFmt(pg)
            /\ UNCHANGED cache
       ELSE IF ImgRaises(cache, AfterFmt(pg))
       THEN /\ ret' = Raise("IOError")
            /\ UNCHANGED <<pg, cache>>
       ELSE /\ cache' = SaveEnd(SaveBegin(cache, dest), dest)
            /\ pg' = SavedPage(pg, dest)
            /\ ret' = Ret("none")
    /\ UNCHANGED <<namelist, zipKind, cfg, index, chapter_lengths, bad_files, last, calls,
                   poolVars, benchVars, is_zip, book, lossy_quality>>

\* the page is pickled and unpickled on the other side of a worker boundary
Transfer ==
    /\ pg # NoPg
    /\ call' = [fn |-> "__reduce__"]
    /\ ret' = Ret(Reduced(pg))
    /\ UNCHANGED <<archVars, poolVars, benchVars, is_zip, book, lossy_quality, pg>>

\* SpecObj: one Page made for a file of the cache, holding a source of
\* every kind or nothing
ObjInit ==
    /\ is_zip = TRUE
    /\ namelist = <<>>
    /\ zipKind = <<>>
    /\ cfg = [pcount |-> 1, ignore_page_err |-> TRUE, img_format |-> "keep"]
    /\ \E fp \in PagePaths :
        /\ pg = PageObj(fp)
        /\ \E k \in Kinds \cup {"absent"} :
            cache = IF k = "absent" THEN EmptyCache ELSE [p \in {fp} |-> k]
    /\ index = <<>>
    /\ chapter_lengths = <<>>
    /\ bad_files = <<>>
    /\ last = NoCall
    /\ calls = 0
    /\ PoolIdle
    /\ multithread = FALSE
    /\ BenchIdle
    /\ NoUnit
    /\ book = NoBook
    /\ lossy_quality = img_quality

ObjNext ==
    \/ ImgGet
    \/ ImgSet
    \/ FmtGet
    \/ \E new \in Formats : FmtSet(new)
    \/ \E dest \in Dests : Save(dest)
    \/ Transfer

vars == <<archVars, poolVars, benchVars, unitVars, objVars>>

PoolInit ==
    /\ ArchInit
    /\ PoolIdle
    /\ BenchIdle
    /\ multithread \in BOOLEAN
    /\ book = NoBook
    /\ lossy_quality \in Qualities
    /\ pg = NoPg

PoolNext ==
    \/ \E fmtArg \in FmtArgs : StartBatch(fmtArg)
    \/ \E w \in DOMAIN workers : Dispatch(w)
    \/ \E w \in DOMAIN workers : WorkerOpen(w)
    \/ \E w \in DOMAIN workers : WorkerSave(w)
    \/ \E w \in DOMAIN workers : SigintWorker(w)
    \/ SigintMain
    \/ SigintGroup
    \/ MainTerminate
    \/ MainRaise
    \/ MapReturn
    \/ Comp1
    \/ Comp2

SpecPool == PoolInit /\ [][PoolNext]_vars

(* ------------------------- Spec: one ComicArchive --------------------- *)

Init ==
    /\ ArchInit
    /\ PoolIdle
    /\ BenchIdle
    /\ multithread = FALSE
    /\ book \in {NoBook, OldBook}
    /\ lossy_quality = img_quality
    /\ pg = NoPg

ArchNext ==
    \/ FetchPages
    \/ FetchChapters
    \/ \E start \in StartArgs, end \in EndArgs : AddChapter(start, end)
    \/ \E fmtArg \in FmtArgs : ConvertPages(fmtArg)
    \/ \E fp \in AddPagePaths, i \in ListArgs : AddPage(fp, i)
    \/ \E i \in ListArgs : RemovePage(i)
    \/ \E book_format \in BookFormats, file_name \in FileNames :
            WriteArchive(book_format, file_name)

Next == ArchNext

Spec == Init /\ [][Next]_vars

(* ------ SpecConvert: convert_pages with write errors and SIGINT ------- *)
ConvertNext ==
    \/ FetchPages
    \/ FetchChapters
    \/ \E fp \in AddPagePaths, i \in ListArgs : AddPage(fp, i)
    \/ \E fmtArg \in FmtArgs : ConvertPages(fmtArg)
    \/ \E fmtArg \in FmtArgs, ev \in Events, k \in 1..MaxEntries :
            ConvertPagesHit(fmtArg, ev, k)

SpecConvert == Init /\ [][ConvertNext]_vars

(* ----------------- SpecBench: one compute_fmt_sizes call -------------- *)
BenchNext ==
    \/ ExtractSample
    \/ SourceFSize
    \/ \E j \in 1..Len(declared) : ComputeSingleFmt(j)
    \/ Rank

SpecBench == BenchInit /\ [][BenchNext]_vars
SpecFetchedBench == FetchedBenchInit /\ [][BenchNext]_vars

(* ---------- SpecPage: the functions of the page transform ------------ *)
SpecPage == PageInit /\ [][PageNext]_vars

(* ------------- SpecUtil: the functions of util and config ------------- *)
SpecUtil == UtilInit /\ [][UtilNext]_vars

(* -------------------- SpecObj: one Page object ------------------------ *)
SpecObj == ObjInit /\ [][ObjNext]_vars

(* ----------------------- claims about the archive --------------------- *)
\* what the claim C2 expects of a tolerant batch over inputs: the pages that
\* open, converted, in their order, and the paths of the pages that do not
Opens(src) == src.isPage /\ FileAt(FetchedCache, src.fp) \in {"src_ok", "out"}
OpensNot(src) == ~Opens(src)
SurvivorsOf(inputs, fmt) ==
    LET kept == SelectSeq(inputs, Opens)
    IN  [i \in 1..Len(kept) |-> Page(NewFp(kept[i], fmt, "none", FetchedCache))]
FailedOf(inputs) ==
    LET lost == SelectSeq(inputs, OpensNot) IN [i \in 1..Len(lost) |-> lost[i].fp]

\* C2: after convert_pages returns with page-error tolerance on, the index
\* is exactly the successfully converted pages in their original relative
\* order and bad_files exactly the failed paths, for every N >= 1 and every
\* effective pool size (also the synchronous path of pcount == 1).
C2_ConvertKeepsSurvivors ==
    [][(/\ last'.op = "convert_pages"
        /\ calls' = calls + 1
        /\ last'.exc = "none"
        /\ cfg.ignore_page_err)
       => \E fmtArg \in FmtArgs :
            LET fmt == IF fmtArg # "none" THEN fmtArg ELSE cfg.img_format
            IN  /\ index' = SurvivorsOf(FetchedIndex, fmt)
                /\ bad_files' = FailedOf(FetchedIndex)]_vars

\* C3: whenever the index and the chapter lengths are both non-empty, the
\* lengths sum to the length of the index and the chapters fetch_chapters
\* cuts are a contiguous partition of the index in index order.
C3_ChaptersPartitionIndex ==
    (index # <<>> /\ chapter_lengths # <<>>)
    => /\ SumSeq(chapter_lengths) = Len(index)
       /\ Flatten(CutChapters(index, chapter_lengths)) = index

(* ------------------------ claims about a batch ------------------------ *)
\* the files of the archive as extracted, before any task has saved
SourceFiles == ExtractedCache(EmptyCache, AllEntries)
Interrupt == pc = "done" /\ signals > 0

\* C1: element i of the result sequence of a batch is the result of the
\* task applied to the i-th input, whatever the order the tasks end in, in
\* the synchronous, the thread and the process mode alike.
C1_ResultsInInputOrder ==
    \A i \in 1..Len(results) :
        results[i].tag = "result"
        => results[i].item = TaskResult(tasks[i], batch_fmt, "none", SourceFiles)
\* map returned in process mode after the second task ended before the first
C1_Witness ==
    /\ pc = "comp1"
    /\ Mode = "process"
    /\ signals = 0
    /\ Len(done_order) >= 2
    /\ done_order[1] > done_order[2]
    /\ \A i \in 1..Len(results) : results[i].tag = "result"

\* C4: an interrupt that arrives while a batch runs surfaces to the caller
\* as the cancellation error (MPrunnerInterrupt), never as a normal result
\* or a generic error, in every mode and whichever process it hits.
C4_InterruptIsCancellation ==
    Interrupt => last.exc = "MPrunnerInterrupt"

\* C5: a second interrupt that reaches the coordinating process after the
\* first one has begun to cancel the batch still ends the batch with
\* exactly one cancellation error.
C5_SecondInterruptIsCancellation ==
    (Interrupt /\ Mode = "process" /\ hit_main /\ ~hit_worker /\ signals = 2)
    => last.exc = "MPrunnerInterrupt"

\* C6: after an interrupted batch no entry of the index refers to a file
\* that is partly written or missing, also when the batch keeps the source
\* format and its outputs replace their sources in place.
C6_NoPartialFileInIndex ==
    Interrupt =>
        \A i \in 1..Len(index) : FileAt(cache, index[i].fp) \in Kinds \cup {"out"}
\* a batch in place was cancelled while a worker was writing its output
C6_Witness ==
    /\ Interrupt
    /\ last.exc = "MPrunnerInterrupt"
    /\ batch_fmt = "keep"
    /\ \E w \in DOMAIN workers :
            /\ workers[w].st = "dead"
            /\ workers[w].task > 0
            /\ workers[w].dest = tasks[workers[w].task].fp
            /\ FileAt(cache, TmpOf(workers[w].dest)) = "partial"

(* ---------------------- claims about the benchmark -------------------- *)
NBytesOf(rep) == [i \in 1..Len(rep) |-> rep[i].nbytes]
AscendingBytes(rep) == \A i, j \in 1..Len(rep) : i < j => rep[i].nbytes <= rep[j].nbytes
DeclaredAt(name) == CHOOSE j \in 1..Len(declared) : declared[j] = name
Reported == bpc = "done" /\ last.exc = "none"

\* C7 as stated: the report lists the baseline and every candidate in
\* ascending order of total byte size, the baseline at its ranked place
\* (800, 900, 1000, 1200 for a baseline of 1000).
C7_ReportAscending ==
    Reported => AscendingBytes(report)

\* C7 amended: the report lists the baseline first, whatever its size, and
\* after it every candidate once, in ascending order of total byte size
\* (1000, 800, 900, 1200 for a baseline of 1000).
C7_BaselineFirstThenAscending ==
    Reported =>
        /\ Len(report) = Len(declared) + 1
        /\ report[1] = source_fsize
        /\ AscendingBytes(Tail(report))
        /\ \A j \in 1..Len(declared) :
                Cardinality({i \in 2..Len(report) : report[i] = fmt_fsizes[j]}) = 1
\* baseline 1000, candidates of 800, 1200 and 900 bytes in declaration order
C7_Witness ==
    /\ Reported
    /\ NBytesOf(<<source_fsize>> \o fmt_fsizes) = <<1000, 800, 1200, 900>>
    /\ NBytesOf(report) = <<1000, 800, 900, 1200>>

\* C8: two candidates of equal total byte size appear in the report in
\* their declaration order, for every pair of formats and every
\* declaration order.
C8_TiesInDeclarationOrder ==
    Reported =>
        \A i, j \in 2..Len(report) :
            (i < j /\ report[i].nbytes = report[j].nbytes)
            => DeclaredAt(report[i].name) < DeclaredAt(report[j].name)

\* the offsets of the window len/2 - k up to len/2 + k
Window == ((zipN \div 2) - samples_count)..((zipN \div 2) + samples_count - 1)
Sampling == bpc # "idle" /\ samples_count >= 1 /\ zipN >= 2 * samples_count
InWindow ==
    \A i \in 1..Len(sample) : \E o \in Window : sample[i] = namelist[o + 1]

\* C9 as stated: with n >= 2k entries and k >= 1, extract(count=k)
\* selects exactly 2k entries, all from the window of offsets len/2 - k up
\* to len/2 + k.
C9_SampleOfTwoK ==
    Sampling => (Len(sample) = 2 * samples_count /\ InWindow)

\* C9 amended: with n >= 2k entries and k >= 1, extract(count=k) selects
\* exactly k entries, every second one of the window of offsets len/2 - k
\* up to len/2 + k starting at its first, and extracts exactly those.
C9_SampleOfK ==
    Sampling =>
        /\ Len(sample) = samples_count
        /\ InWindow
        /\ \A i \in 1..Len(sample) :
                sample[i] = namelist[(zipN \div 2) - samples_count + 2 * (i - 1) + 1]
        /\ {p \in DOMAIN cache : p.dir = "A"} = {MkPath("A", e, SourceFmt) : e \in Range(sample)}
\* k = 2 on a container of four entries: the first and the third
C9_Witness ==
    /\ bpc = "extracted"
    /\ samples_count = 2
    /\ zipN = 4
    /\ sample = <<namelist[1], namelist[3]>>
    /\ Len(source_pages) = 2

NothingDone == cache = EmptyCache /\ report = <<>> /\ sample = <<>> /\ fmt_fsizes = <<>>

\* C10 as stated: with fewer than 2k entries compute_fmt_sizes fails with
\* the error of the too small sample before any entry is extracted and
\* before any conversion runs.
C10_TooSmallSampleFails ==
    (bpc # "idle" /\ zipN < 2 * samples_count)
    => (bpc = "done" /\ last.exc = "ValueError" /\ NothingDone)

\* C10 amended: with at least one and fewer than 2k entries
\* compute_fmt_sizes fails with the error of the too small sample before
\* any entry is extracted and before any conversion runs; an empty
\* container fails with the error of the empty archive instead.
C10_NonEmptyTooSmallSampleFails ==
    /\ (bpc # "idle" /\ 1 <= zipN /\ zipN < 2 * samples_count)
       => (bpc = "done" /\ last.exc = "ValueError" /\ NothingDone)
    /\ (bpc # "idle" /\ zipN = 0)
       => (bpc = "done" /\ last.exc = "AssertionError" /\ NothingDone)
\* three entries, k = 2
C10_Witness ==
    /\ bpc = "done"
    /\ last = Call("compute_fmt_sizes", "ValueError")
    /\ zipN = 3
    /\ samples_count = 2

(* -------------------- claims about the page transform ----------------- *)
ResizeDone == call.fn = "resize" /\ ret # NotReturned /\ AllSize(call.size)
Target == NewSize(call.img_size, call.size)
TargetSmaller == call.img_size[1] > Target[1] /\ call.img_size[2] > Target[2]
\* the output is smaller than the source in both dimensions / larger in one
IsDownscale ==
    /\ ret.value.resized
    /\ ret.value.size[1] < call.img_size[1]
    /\ ret.value.size[2] < call.img_size[2]
IsUpscale ==
    /\ ret.value.resized
    /\ \/ ret.value.size[1] > call.img_size[1]
       \/ ret.value.size[2] > call.img_size[2]

\* C11: with a non-zero target size, the no-downscale flag set and the
\* source larger than the target in both dimensions, no resize occurs,
\* whatever the no-upscale flag.
C11_NoDownscaleMeansNoResize ==
    (ResizeDone /\ call.nodown /\ TargetSmaller) => ~ret.value.resized

\* C12: a downscale is performed only if both dimensions of the target are
\* smaller than the source, an upscale only if no-upscale is not set, the
\* image keeps its size if neither holds, and with no-upscale set the
\* output never exceeds the source in either dimension.
C12_ResizeGating ==
    ResizeDone =>
        /\ IsDownscale => TargetSmaller
        /\ IsUpscale => ~call.noup
        /\ (~TargetSmaller /\ call.noup) => ret.value.size = call.img_size
        /\ call.noup => /\ ret.value.size[1] <= call.img_size[1]
                        /\ ret.value.size[2] <= call.img_size[2]

\* C13: for positive sizes get_size_that_preserves_ratio returns a size
\* that fits inside the viewport in both dimensions, equals the viewport
\* in at least one, and has no dimension below 1; 1000x500 in 200x200
\* gives 200x100.
C13_RatioFitsViewport ==
    (call.fn = "get_size_that_preserves_ratio" /\ ret # NotReturned) =>
        /\ ret.value[1] <= call.size_of_viewport[1]
        /\ ret.value[2] <= call.size_of_viewport[2]
        /\ ret.value[1] = call.size_of_viewport[1] \/ ret.value[2] = call.size_of_viewport[2]
        /\ ret.value[1] >= 1
        /\ ret.value[2] >= 1
        /\ (call.img_size = <<1000, 500>> /\ call.size_of_viewport = <<200, 200>>)
           => ret.value = <<200, 100>>
\* the example of the claim
C13_Witness ==
    /\ call = [fn |-> "get_size_that_preserves_ratio", img_size |-> <<1000, 500>>,
               size_of_viewport |-> <<200, 200>>]
    /\ ret = Returning(<<200, 100>>)

(* ------------------- claims about util and config --------------------- *)
SortDone == call.fn = "human_sort" /\ ret # NotReturned /\ call.lst # <<>>

\* C14: the order human_sort returns is the natural sort of the full
\* paths, numeric runs compared as numbers; it is a permutation of the
\* input and the same for every order the same set of paths is listed in.
C14_NaturalOrderOfAnyListing ==
    SortDone =>
        /\ ret.exc = "none"
        /\ Len(ret.value) = Len(call.lst)
        /\ Range(ret.value) = Range(call.lst)
        /\ \A i, j \in 1..Len(ret.value) :
                i < j => ~ListLess(alphanum_key(ret.value[j]), alphanum_key(ret.value[i]), 1)
        /\ \A other \in Listings :
                Range(other) = Range(call.lst) => human_sort(other) = ret

ZipDone == call.fn = "write_zip" /\ ret # NotReturned
\* the directory the pages of chapter i are put under
ParentOf(i) == call.chapter_prefix \o ZeroPadded(i, Len(StrOfInt(Len(call.chapters))))
RelPaths(pages) == [k \in 1..Len(pages) |-> pages[k].rel_path]

\* C15: with more than one chapter write_zip puts every page of chapter i
\* under {prefix}{i padded with zeros to the digit count of the number of
\* chapters}, with one chapter under no directory; the entries are in
\* chapter order, then page order, and the lexical order of the chapter
\* directories is the chapter order.
C15_ChapterDirectories ==
    ZipDone =>
        /\ RelPaths(ret.value) = Flatten([i \in 1..Len(call.chapters) |->
                                            RelPaths(call.chapters[i])])
        /\ \A e \in 1..Len(ret.value) :
                ret.value[e].parent =
                    IF Len(call.chapters) > 1 THEN ParentOf(ret.value[e].rel_path[1]) ELSE <<>>
        /\ \A e, f \in 1..Len(ret.value) :
                ret.value[e].rel_path[1] < ret.value[f].rel_path[1]
                => StrLess(ret.value[e].parent, ret.value[f].parent)
\* chapters of 2, 1 and 3 pages go under v1, v2, v3
C15_Witness ==
    /\ ZipDone
    /\ [i \in 1..Len(call.chapters) |-> Len(call.chapters[i])] = <<2, 1, 3>>
    /\ [e \in 1..Len(ret.value) |-> ret.value[e].parent] =
            << <<"v", "1">>, <<"v", "1">>, <<"v", "2">>,
               <<"v", "3">>, <<"v", "3">>, <<"v", "3">> >>

PcountDone == call.fn = "pcount" /\ ret # NotReturned
Configured == call.processes > 0
Cores == call.logical_cores[1]

\* C18 as stated: map_workers uses min(inputs, W) workers, W the
\* configured count when it is > 0, else cores - 1 when cores > 2 and a
\* fixed default when cores <= 2 or unknown.
C18_WorkerCount ==
    PcountDone =>
        ret.value = Min(call.n,
                        IF Configured THEN call.processes
                        ELSE IF call.logical_cores # <<>> /\ Cores > 2 THEN Cores - 1
                        ELSE default_value)

\* C18 amended: map_workers uses min(inputs, W) workers, W the configured
\* count when it is > 0, else cores - 1 when cores > 2, the core count
\* itself when it is 1 or 2, and the fixed default when it is unknown;
\* never more workers than inputs.
C18_WorkerCountSmallHost ==
    PcountDone =>
        /\ ret.value = Min(call.n,
                           IF Configured THEN call.processes
                           ELSE IF call.logical_cores = <<>> THEN default_value
                           ELSE IF Cores > 2 THEN Cores - 1
                           ELSE Cores)
        /\ ret.value <= call.n
\* two cores, nothing configured, three inputs: two workers
C18_Witness ==
    /\ call = [fn |-> "pcount", processes |-> 0, logical_cores |-> <<2>>, n |-> 3]
    /\ ret = Returning(2)

(* ---------------------- claims about page errors ---------------------- *)
\* task i of the batch is a page that does not open as an image of a
\* recognised format
BadSource(i) == FileAt(SourceFiles, tasks[i].fp) # "src_ok"
\* the batch came back from map_workers without an interrupt
BatchBack == signals = 0 /\ (pc \in {"comp1", "comp2"} \/ (pc = "done" /\ last.exc = "none"))
PageErrors == {"KeyError", "IOError"}

\* C16: with page-error tolerance on, the worker of a page that cannot be
\* opened or whose format is not recognised returns (False, page), raises
\* nothing and writes no file, and every other page of the batch is
\* converted and returned as (True, page).
C16_BadPageIsAFailureResult ==
    cfg.ignore_page_err =>
        /\ last.exc \notin PageErrors
        /\ \A i \in 1..Len(tasks) :
            IF BadSource(i)
            THEN /\ results[i].tag # "raised"
                 /\ results[i].tag = "result"
                    => results[i].item = [ok |-> FALSE, page |-> Page(tasks[i].fp)]
                 /\ \A p \in DOMAIN cache :
                        p.stem = tasks[i].fp.stem
                        => p = tasks[i].fp /\ cache[p] = SourceFiles[p]
            ELSE BatchBack =>
                 /\ results[i].item =
                        [ok |-> TRUE,
                         page |-> Page(NewFp(tasks[i], batch_fmt, "none", SourceFiles))]
                 /\ FileAt(cache, NewFp(tasks[i], batch_fmt, "none", SourceFiles)) = "out"
\* a tolerant batch of a bad and a good page came back from the process pool
C16_Witness ==
    /\ cfg.ignore_page_err
    /\ BatchBack
    /\ pc = "done"
    /\ Mode = "process"
    /\ \E i, j \in 1..Len(tasks) :
        /\ BadSource(i)
        /\ results[i].item = [ok |-> FALSE, page |-> Page(tasks[i].fp)]
        /\ ~BadSource(j)
        /\ results[j].item.ok

\* C17: with page-error tolerance off, one page that cannot be opened or
\* whose format is not recognised makes convert_pages end with that page's
\* error in the synchronous, the thread and the process mode; it never
\* gets a result sequence to iterate and assigns neither index nor
\* bad_files.
C17_BadPageFailsTheBatch ==
    (~cfg.ignore_page_err /\ signals = 0 /\ \E i \in 1..Len(tasks) : BadSource(i)) =>
        /\ pc \notin {"comp1", "comp2"}
        /\ ~(pc = "sync_run" /\ AllSet)
        /\ pc = "done" =>
            /\ \E i \in 1..Len(tasks) :
                /\ BadSource(i)
                /\ last.exc = WorkerEnd(tasks[i], SourceFiles, FALSE)
            /\ last.exc \in PageErrors
            /\ index = tasks
            /\ bad_files = <<>>
\* a strict batch failed in the thread pool although a sibling had been
\* converted
C17_Witness ==
    /\ ~cfg.ignore_page_err
    /\ signals = 0
    /\ pc = "done"
    /\ Mode = "thread"
    /\ last.exc \in PageErrors
    /\ \E j \in 1..Len(tasks) : ~BadSource(j) /\ results[j].tag = "result"

\* C19: with exactly one input map_workers makes no pool of processes or
\* threads whatever the configured count; the one task runs in the caller,
\* once, and the caller gets what it returned or the exception it raised.
C19_OneInputRunsInTheCaller ==
    Len(tasks) = 1 =>
        /\ Mode = "sync"
        /\ Len(workers) = 1
        /\ terminate_calls = 0
        /\ pc \notin {"pool_wait", "except", "unwind", "comp1"}
        /\ next_task <= 2
        /\ Len(done_order) <= 1
        /\ (pc = "done" /\ signals = 0) =>
            /\ next_task = 2
            /\ IF last.exc = "none"
               THEN /\ results[1] = Returned(TaskResult(tasks[1], batch_fmt, "none",
                                                        SourceFiles))
                    /\ done_order = <<1>>
               ELSE /\ last.exc = WorkerEnd(tasks[1], SourceFiles, cfg.ignore_page_err)
                    /\ results[1] = Pending
\* a batch of one page ended although more than one process was configured
C19_Witness ==
    /\ Len(tasks) = 1
    /\ cfg.pcount = MaxProc
    /\ pc = "done"
    /\ signals = 0
    /\ last.exc = "none"
    /\ results[1].item.ok

(* ------------------ claims about a source that fails ------------------ *)
\* the exceptions of extract that stand for the errors of the specification
InvalidContainer == "ValueError"
EmptyArchive == "AssertionError"
ExtractingOps == {"fetch_pages", "fetch_chapters", "convert_pages"}

\* C20: on a source that is not a zip file every operation that extracts
\* ends with the error for an invalid container, on a zip file of no
\* entries with the error for an empty archive; the cache directory of the
\* archive stays empty, so do its index, its chapter lengths and its list
\* of bad files.
C20_BadSourceExtractsNothing ==
    (~is_zip \/ zipN = 0) =>
        /\ last.op \in ExtractingOps
           => last.exc = (IF ~is_zip THEN InvalidContainer ELSE EmptyArchive)
        /\ last.op = "add_chapter"
           => last.exc \in {"ValueError", IF ~is_zip THEN InvalidContainer ELSE EmptyArchive}
        /\ CachedPaths(cache) = {}
        /\ index = <<>>
        /\ chapter_lengths = <<>>
        /\ bad_files = <<>>
\* convert_pages was called on a zip file of no entries
C20_Witness ==
    /\ is_zip
    /\ zipN = 0
    /\ last = Call("convert_pages", EmptyArchive)
    /\ calls = MaxCalls

(* ---------------------- claims about write_archive -------------------- *)
WriteEnded == last.op = "write_archive"
\* a step that is one call of write_archive
WriteStep == calls' = calls + 1 /\ last'.op = "write_archive"
\* the step wrote nothing at the destination: the file is as it was, or
\* was only removed
NothingWritten == book' \in {book, NoBook}

\* C21: write_archive called for mobi, a valid name that is not
\* implemented, ends with NotImplementedError and never returns normally;
\* called with a name that is not a valid book format it ends with
\* ValueError; neither call writes a container.
C21_UnimplementedFormatIsReported ==
    [][WriteStep =>
        /\ last'.book_format = "mobi" =>
            /\ last'.exc # "none"
            /\ last'.file_name # "missing/book" => last'.exc = "NotImplementedError"
            /\ NothingWritten
        /\ last'.book_format \notin VALID_BOOK_FORMATS =>
            /\ last'.exc = "ValueError"
            /\ NothingWritten]_vars
\* write_archive was called for mobi on an archive whose pages were fetched
C21_Witness ==
    /\ WriteEnded
    /\ last.book_format = "mobi"
    /\ last.exc = "NotImplementedError"
    /\ index # <<>>
    /\ book = NoBook

(* -------------------------- claims about Page ------------------------- *)
\* the two states of a Page
Closed(page) == page.closed /\ ~page.img.live
Open(page) == ~page.closed /\ page.img.live
Did(fn) == call'.fn = fn /\ ret'.exc = "none"

\* C22: a Page is always either Closed (it holds no open image) or Open
\* (it holds one); reading img on an Open page returns the image it holds
\* and opens nothing; after save(dest) returns, from either state, the
\* page is Closed and its fp, name and stem are those of dest.
C22_ClosedOrOpen ==
    /\ [](Closed(pg) \/ Open(pg))
    /\ [][/\ (Did("img") /\ Open(pg)) =>
                /\ ret'.value = pg.img
                /\ pg' = pg
          /\ Did("save") =>
                /\ Closed(pg')
                /\ pg'.fp = call'.dest
                /\ pg'.name = NameOf(call'.dest)
                /\ pg'.stem = call'.dest.stem]_vars
\* an Open page holding a changed image was saved under another name
C22_Witness ==
    /\ call = [fn |-> "save", dest |-> MkPath("A", 1, "jpeg")]
    /\ ret = Ret("none")
    /\ pg.fp = MkPath("A", 1, "jpeg")
    /\ pg.img.edited
    /\ pg.opens = 1
    /\ Closed(pg)

\* C23: a Page is pickled as its class and its current fp alone: the Page
\* made on the other side is Closed, holds no image and no format, and its
\* fp, name, stem and rel_path are those Page.__init__ derives from that
\* path, whatever state the page was in.
C23_TransferredByPath ==
    (call.fn = "__reduce__" /\ ret.exc = "none") =>
        /\ Closed(ret.value)
        /\ ret.value.img = NoImg
        /\ ret.value.fmt = "none"
        /\ ret.value.opens = 0
        /\ ret.value.fp = pg.fp
        /\ ret.value.name = NameOf(pg.fp)
        /\ ret.value.stem = pg.fp.stem
        /\ ret.value.rel_path = RelPath(pg.fp)
\* an Open page with a format set, saved before into the directory of a
\* format and opened again, was transferred
C23_Witness ==
    /\ call.fn = "__reduce__"
    /\ ret.exc = "none"
    /\ Open(pg)
    /\ pg.fmt = "jpeg"
    /\ pg.fp = MkPath(FmtDir("jpeg"), 1, "jpeg")
    /\ ret.value = PageObj(pg.fp)

(* ------------------ claims about globals and interrupts --------------- *)
\* C24: no step of a batch changes a class-level encode parameter: the
\* quality attribute of the lossy formats keeps the value it had before
\* the batch started.
C24_WorkerLeavesGlobalsAlone ==
    [][lossy_quality' = lossy_quality]_vars

\* a worker whose ctrl_c_entered is set
Flagged(w) == workers[w].flag
Cancelled(i) == results[i] = InterruptObj

\* C25: in a worker process of the pool ctrl_c_entered, once set, stays
\* set as long as the pool lives; a worker with the flag set never runs a
\* task body, so every input it is given afterwards comes back as the
\* cancellation result; and an input that came back as cancelled is not
\* run again.
C25_InterruptFlagIsSticky ==
    /\ [](\A w \in DOMAIN workers : Flagged(w) => workers[w].st \in {"idle", "dead"})
    /\ [][/\ \A w \in DOMAIN workers : Flagged(w) => workers'[w].flag
          /\ \A i \in 1..Len(results) :
                Cancelled(i) =>
                    /\ results'[i] = InterruptObj
                    /\ \A w \in DOMAIN workers : workers'[w].task # i
          /\ \A w \in DOMAIN workers :
                (Flagged(w) /\ workers[w].st = "idle" /\ next_task' = next_task + 1
                 /\ workers' = workers)
                => results'[next_task] = InterruptObj]_vars
\* one worker was interrupted in the first task and was then given the
\* second, which the other worker never saw
C25_Witness ==
    /\ Mode = "process"
    /\ signals = 1
    /\ ~hit_main
    /\ Len(results) = 2
    /\ \A i \in 1..Len(results) : Cancelled(i)
    /\ \E w \in DOMAIN workers : Flagged(w)
    /\ \E w \in DOMAIN workers : ~Flagged(w) /\ workers[w].st = "idle"

(* ------------------- claims about the target orientation -------------- *)
\* the target is given portrait-first
PortraitFirst(size) == size[1] < size[2]
\* C26: the two target dimensions are swapped exactly when the image is
\* landscape and the target is portrait-first: an image resized without
\* keep-aspect gets the swapped target in that case and the target as
\* configured in every other.
C26_SwapOnlyPortraitFirstTarget ==
    (ResizeDone /\ ~call.keep_ratio /\ ret.value.resized) =>
        ret.value.size = IF landscape(call.img_size) /\ PortraitFirst(call.size)
                         THEN Reversed(call.size)
                         ELSE call.size

(* ------------------- claims about the index and the cache ------------- *)
\* a call of fetch_pages that found the index empty, extracted and returned
Extracting ==
    /\ index = <<>>
    /\ calls' = calls + 1
    /\ last'.op = "fetch_pages"
    /\ last'.exc = "none"
EntryPaths == {MkPath("A", e, SourceFmt) : e \in AllEntries}

\* C27: whatever was done on the archive before, an extract returns one
\* page for each entry of the container it selected and no other page.
C27_ExtractReturnsItsEntries ==
    [][Extracting =>
        /\ Len(index') = zipN
        /\ {index'[i].fp : i \in 1..Len(index')} = EntryPaths]_vars

\* C28: no path of bad_files is the path of a page of the index.
C28_FailedPageStaysOut ==
    \A i \in 1..Len(bad_files), j \in 1..Len(index) : index[j].fp # bad_files[i]

\* C29: every entry of the index is a file in the archive's own cache
\* directory, also after add_chapter.
C29_IndexInOwnCache ==
    \A j \in 1..Len(index) :
        /\ index[j].fp.dir \in OwnDirs
        /\ FileAt(cache, index[j].fp) # "absent"

(* ---------------- claims about the benchmark's effects ---------------- *)
FmtDirs == {FmtDir(f) : f \in Formats}
ConvertedFiles == {p \in DOMAIN cache : cache[p] \in {"out", "partial"}}

ConvertFails ==
    /\ calls' = calls + 1
    /\ last'.op = "convert_pages"
    /\ last'.exc # "none"
\* no page file of the cache directory is gone after the step (a save's
\* temporary file may have been renamed by a later save to the same
\* page), and the entries the call extracted are there
CacheKept ==
    /\ \A p \in DOMAIN cache : p = TmpOf(p) \/ FileAt(cache', p) # "absent"
    /\ ~FetchRaises => \A p \in DOMAIN FetchedCache :
                            p = TmpOf(p) \/ FileAt(cache', p) # "absent"

\* C31 as stated: a convert_pages call that ends with an exception leaves
\* index, chapter lengths and bad_files exactly as they were before the
\* call, and deletes nothing from the cache directory.
C31_FailedConvertChangesNothing ==
    [][ConvertFails =>
            /\ index' = index
            /\ chapter_lengths' = chapter_lengths
            /\ bad_files' = bad_files
            /\ CacheKept]_vars

\* C31 amended: after a convert_pages call that ends with an exception the
\* index is what fetch_pages returned at the start of the call (the pages
\* extracted by the call if the index was empty and the container could be
\* extracted, the index as it was otherwise), chapter lengths and
\* bad_files are as they were before the call, and no page file of the
\* cache directory is gone.
C31_FailedConvertKeepsFetchedIndex ==
    [][ConvertFails =>
            /\ index' = IF index # <<>> THEN index
                         ELSE IF ~is_zip \/ zipN = 0 THEN <<>>
                         ELSE SortedPages(ExtractedCache(cache, AllEntries))
            /\ chapter_lengths' = chapter_lengths
            /\ bad_files' = bad_files
            /\ CacheKept]_vars
\* a process-pool batch was cancelled while a page was being saved: the
\* index holds the extracted pages and the unfinished file is in the cache
C31_Witness ==
    /\ last = Call("convert_pages", "MPrunnerInterrupt")
    /\ calls = 1
    /\ Len(index) >= 2
    /\ bad_files = <<>>
    /\ \E p \in DOMAIN cache : cache[p] = "partial"

(* ------------------- claims about the index's elements ---------------- *)
\* add_page called with its default position on a file that exists
AddPageDefault(fp) == AddPage(fp, -1) /\ last'.exc = "none"

\* C32: every element of the index is a Page, whatever fetch_pages,
\* add_chapter, add_page, remove_page and convert_pages have done, and
\* add_page with its default position makes the new page the last element
\* of the index.
C32_IndexHoldsPages ==
    /\ [](\A j \in 1..Len(index) : index[j].isPage)
    /\ [][\A fp \in AddPagePaths :
            AddPageDefault(fp) => index' = Append(index, Page(fp))]_vars

(* ------------- claims about a write_archive that fails ---------------- *)
\* a write_archive step that ends with one of its own errors: an invalid
\* book format, a missing parent folder, a format that is not implemented
WriteRefused ==
    /\ WriteStep
    /\ \/ last'.book_format \notin VALID_BOOK_FORMATS
       \/ last'.file_name = "missing/book"
       \/ last'.book_format = "mobi"
    /\ last'.exc \in {"ValueError", "NotImplementedError"}

\* C33: a write_archive call that ends with an error (invalid book format,
\* missing parent folder, unimplemented format) leaves the file system as
\* it was: a file that was at the output path before the call is still
\* there.
C33_RefusedWriteKeepsTheFile ==
    [][WriteRefused => book' = book /\ cache' = cache]_vars

====
